---------------------------- MODULE Spec2Model ----------------------------
(***************************************************************************)
(* Translation orchestration and caching engine of tradutor-do-bagui:      *)
(*   backend/app/services/deepl_service.py  (rate limiter, retry loop)     *)
(*   backend/app/services/cache_service.py  (two-tier cache)               *)
(*   backend/app/api/translation.py         (TranslationService)           *)
(*                                                                         *)
(* The specifications share the variables below:                           *)
(*   SpecRate       concurrent callers of DeepLService._check_rate_limit   *)
(*   SpecRetry, SpecRetryFair   one DeepLService.translate_text invocation *)
(*   SpecGlossary   translate_text with a glossary; protect and restore    *)
(*   SpecKey        CacheService.generate_cache_key                        *)
(*   SpecCache, SpecCacheSeq, SpecCacheDown   clients of CacheService      *)
(*   SpecBatch      a client of save_to_cache and batch_save_to_cache      *)
(*   SpecJobSeq, SpecJobFair, SpecJobs   process_translation runs          *)
(*   SpecJobGlossary   process_translation runs of jobs with a glossary    *)
(*   SpecProgress   callers of get_translation_progress                    *)
(***************************************************************************)
EXTENDS Integers, Sequences, FiniteSets, TLC

(***************************************************************************)
(* Time.  One tick is the 0.2 s of the limiter's re-check sleep.           *)
(***************************************************************************)
\* time.sleep(0.2): the re-check delay, in ticks
RecheckDelay == 1
\* the one-second window (current_time - 1), in ticks
WindowTicks == 5
\* self.max_requests_per_second
max_requests_per_second == 5
\* self.retry_attempts
retry_attempts == 3
\* self.backoff_multiplier
backoff_multiplier == 2
\* self.max_chars_per_request
max_chars_per_request == 500000

\* bounds of the limiter model
NCallers == 2
RateMaxTime == 5
MaxAdmits == 6
MaxLimiterFaults == 1
\* bounds of the retry model
RetryMaxTime == 21
MaxProviderFails == 4
\* bounds of the cache and job models
NWorkers == 2
MaxRows == 2
MaxHits == 2
MaxDbFaults == 1
\* jobs
NJobs == 2
MaxRuns == 2
InitialCredits == 5

VARIABLES
    now,           \* wall clock (time.time()), in ticks
    zset,          \* Redis sorted set "deepl:rate_limit": score -> number of members
    rl,            \* per caller: position inside _check_rate_limit and its locals
    admitted,      \* history: score -> number of calls _check_rate_limit admitted
    limiterFault,  \* history: number of limiter calls in which a Redis operation raised
    tt,            \* the translate_text invocation of SpecRetry
    uniqueHash,    \* schema: translation_cache.text_hash carries a UNIQUE constraint
    durable,       \* table translation_cache: set of rows
    nextId,        \* next primary key of translation_cache
    redis,         \* Redis keys translation_cache:<hash>: key -> JSON record or None
    dbFaults,      \* history: number of database operations that raised
    served,        \* history: ids of the entries that lookups have returned
    pc,            \* per worker: position in the code
    loc,           \* per worker: arguments, locals and return value
    translations,  \* table translations: job id -> row
    chunkRows,     \* table translation_chunks, in insertion order
    credits,       \* users.credits of the jobs' owner
    progressStore, \* Redis keys translation_progress:<id>: id -> JSON record or None
    debited        \* history: per job, what its runs have taken from credits

rateVars == <<now, zset, rl, admitted, limiterFault>>
retryVars == <<tt>>
cacheVars == <<uniqueHash, durable, nextId, redis, dbFaults, served>>
workerVars == <<pc, loc>>
\* what the limiter and retry specifications leave alone
jobVars == <<translations, chunkRows, credits, progressStore, debited>>
offVars == <<cacheVars, workerVars, jobVars>>
vars == <<now, zset, rl, admitted, limiterFault, tt,
          uniqueHash, durable, nextId, redis, dbFaults, served, pc, loc,
          translations, chunkRows, credits, progressStore, debited>>

Callers == 1..NCallers

RECURSIVE SumTo(_, _)
\* sum of f[0] .. f[n]
SumTo(f, n) == IF n < 0 THEN 0 ELSE f[n] + SumTo(f, n - 1)

\* the bag of scores over 0..hi with no member
EmptyBag(hi) == [s \in 0..hi |-> 0]

\* redis zcard: number of members of a score -> count bag
BagCard(f) == SumTo(f, Cardinality(DOMAIN f) - 1)

RECURSIVE Pow(_, _)
Pow(b, e) == IF e = 0 THEN 1 ELSE b * Pow(b, e - 1)

\* Python's None, and a variable not yet assigned
None == [none |-> TRUE]
Unset == [unset |-> TRUE]


\* every clock value the running specification can read
Times == DOMAIN admitted

TotalAdmitted == BagCard(admitted)

\* calls admitted with a score in the window (T - 1 s, T]
AdmittedInWindow(T) ==
    SumTo(admitted, T) - SumTo(admitted, T - WindowTicks)

(***************************************************************************)
(* DeepLService._check_rate_limit, one action per Redis round trip.        *)
(* Members of the sorted set are str(current_time); the model keeps one    *)
(* member per registration (two calls never read the same float), so the   *)
(* set is a bag of scores.  The key's 2 s expiry only drops members that   *)
(* are already outside the window and is a step without effect here.       *)
(***************************************************************************)
\* the caller is at the top of _check_rate_limit (first call or recursion)
AtEntry(c) ==
    \/ rl[c].pc = "call"
    \/ rl[c].pc = "sleep" /\ now >= rl[c].wake

\* lines 27-30: current_time = time.time(); zremrangebyscore(key, 0, current_time - 1)
check_rate_limit_trim(c) ==
    /\ AtEntry(c)
    /\ zset' = [s \in Times |-> IF s <= now - WindowTicks THEN 0 ELSE zset[s]]
    /\ rl' = [rl EXCEPT ![c] = [pc |-> "count", t |-> now, wake |-> 0]]
    /\ UNCHANGED <<now, admitted, limiterFault>>

\* a limiter that compares with > instead of >=
CountBranchOffByOne(c, current_count) ==
    IF current_count > max_requests_per_second
    THEN [rl[c] EXCEPT !.pc = "sleep", !.wake = now + RecheckDelay]
    ELSE [rl[c] EXCEPT !.pc = "register"]

\* the branch of line 35 on the cardinality read at line 33
CountBranch(c, current_count) ==
    IF current_count >= max_requests_per_second
    THEN [rl[c] EXCEPT !.pc = "sleep", !.wake = now + RecheckDelay]
    ELSE [rl[c] EXCEPT !.pc = "register"]

\* lines 33-37: current_count = zcard(key); full window: sleep(0.2) and recurse
check_rate_limit_count(c) ==
    /\ rl[c].pc = "count"
    /\ rl' = [rl EXCEPT ![c] = CountBranch(c, BagCard(zset))]
    /\ UNCHANGED <<now, zset, admitted, limiterFault>>

\* line 40: zadd(key, {str(current_time): current_time})
check_rate_limit_register(c) ==
    /\ rl[c].pc = "register"
    /\ zset' = [zset EXCEPT ![rl[c].t] = @ + 1]
    /\ rl' = [rl EXCEPT ![c].pc = "expire"]
    /\ UNCHANGED <<now, admitted, limiterFault>>

\* lines 41-43: expire(key, 2); return True
check_rate_limit_expire(c) ==
    /\ rl[c].pc = "expire"
    /\ rl' = [rl EXCEPT ![c].pc = "ret"]
    /\ admitted' = [admitted EXCEPT ![rl[c].t] = @ + 1]
    /\ UNCHANGED <<now, zset, limiterFault>>

\* a limiter that lets the exception of the counter store through
check_rate_limit_reraise(c) ==
    /\ AtEntry(c) \/ rl[c].pc \in {"count", "register", "expire"}
    /\ limiterFault < MaxLimiterFaults
    /\ rl' = [rl EXCEPT ![c].pc = "raised"]
    /\ limiterFault' = limiterFault + 1
    /\ UNCHANGED <<now, zset, admitted>>

\* lines 44-46: any Redis operation raises; the call is admitted all the same
check_rate_limit_except(c) ==
    /\ \/ AtEntry(c) /\ admitted' = [admitted EXCEPT ![now] = @ + 1]
       \/ /\ rl[c].pc \in {"count", "register", "expire"}
          /\ admitted' = [admitted EXCEPT ![rl[c].t] = @ + 1]
    /\ limiterFault < MaxLimiterFaults
    /\ rl' = [rl EXCEPT ![c].pc = "ret"]
    /\ limiterFault' = limiterFault + 1
    /\ UNCHANGED <<now, zset>>

\* time passes
Tick(limit) ==
    /\ now < limit
    /\ now' = now + 1
    /\ UNCHANGED <<zset, rl, admitted, limiterFault>>

(***************************************************************************)
(* SpecRate: callers that ask for admission again and again.               *)
(***************************************************************************)
\* a caller (a translate_text attempt) asks for admission
caller_request(c) ==
    /\ rl[c].pc \in {"idle", "ret"}
    /\ TotalAdmitted < MaxAdmits
    /\ rl' = [rl EXCEPT ![c].pc = "call"]
    /\ UNCHANGED <<now, zset, admitted, limiterFault>>

RlIdle == [pc |-> "idle", t |-> 0, wake |-> 0]

InitLimiter(horizon) ==
    /\ now = 0
    /\ admitted = EmptyBag(horizon)
    /\ rl = [c \in Callers |-> RlIdle]
    /\ limiterFault = 0

TtIdle == [pc |-> "off"]

\* the cache and the workers are not part of this specification
CacheOff ==
    /\ uniqueHash = TRUE
    /\ durable = {}
    /\ nextId = 1
    /\ redis = <<>>
    /\ dbFaults = 0
    /\ served = {}
    /\ pc = <<>>
    /\ loc = <<>>
    /\ translations = <<>>
    /\ chunkRows = <<>>
    /\ credits = 0
    /\ progressStore = <<>>
    /\ debited = <<>>

InitRate ==
    /\ InitLimiter(RateMaxTime)
    /\ zset = EmptyBag(RateMaxTime)
    /\ tt = TtIdle
    /\ CacheOff

NextRate ==
    \/ \E c \in Callers :
         \/ caller_request(c) /\ UNCHANGED <<retryVars, offVars>>
         \/ check_rate_limit_trim(c) /\ UNCHANGED <<retryVars, offVars>>
         \/ check_rate_limit_count(c) /\ UNCHANGED <<retryVars, offVars>>
         \/ check_rate_limit_register(c) /\ UNCHANGED <<retryVars, offVars>>
         \/ check_rate_limit_expire(c) /\ UNCHANGED <<retryVars, offVars>>
         \/ check_rate_limit_except(c) /\ UNCHANGED <<retryVars, offVars>>
    \/ Tick(RateMaxTime) /\ UNCHANGED <<retryVars, offVars>>

SpecRate == InitRate /\ [][NextRate]_vars

(***************************************************************************)
(* C2: over any sliding one-second window the number of calls admitted by  *)
(* _check_rate_limit never exceeds max_requests_per_second, for concurrent *)
(* callers and any interleaving of their count and register steps.  The    *)
(* statement is taken with a working counter store.                        *)
(***************************************************************************)
C2_WindowNeverExceedsCap ==
    limiterFault = 0 =>
        \A T \in Times : AdmittedInWindow(T) <= max_requests_per_second


(***************************************************************************)
(* Texts.  A text is a short sequence of characters followed by `pad`      *)
(* further letters, so that len(text) can pass max_chars_per_request.      *)
(***************************************************************************)
Txt(chars, pad) == [s |-> chars, pad |-> pad, spaces |-> 0]

\* the text followed by n spaces
WithSpaces(x, n) == [x EXCEPT !.spaces = n]

\* len(text)
TextLen(x) == Len(x.s) + x.pad + x.spaces

\* a check that takes only the empty string
IsBlankEmptyOnly(x) == TextLen(x) = 0

\* not text or not text.strip()
IsBlank(x) == x.pad = 0 /\ \A i \in 1..Len(x.s) : x.s[i] = " "

EmptyText == Txt(<<>>, 0)

\* result.text of the provider for a request text
ProviderText(x) == [x EXCEPT !.s = <<"T">> \o @]

(***************************************************************************)
(* DeepLService.translate_text: one invocation, its provider scripted to   *)
(* raise DeepLException on the first tt.fails calls.  The invocation is    *)
(* limiter caller 1.                                                       *)
(***************************************************************************)
TT == 1

RetryTexts ==
    { EmptyText, Txt(<<" ">>, 0), Txt(<<"a", "b">>, 0),
      Txt(<<>>, max_chars_per_request), Txt(<<"a">>, max_chars_per_request),
      WithSpaces(Txt(<<" ">>, 0), max_chars_per_request) }

\* a backoff that grows linearly
BackoffWaitLinear(attempt) == backoff_multiplier * attempt

\* line 115: wait_time = self.backoff_multiplier ** attempt
BackoffWait(attempt) == Pow(backoff_multiplier, attempt)

\* a retry test that is off by one
MayRetryOffByOne(attempt) == attempt < retry_attempts

\* line 114: attempt < self.retry_attempts - 1
MayRetry(attempt) == attempt < retry_attempts - 1

\* a size validation that lets every text through
TooLongNever(x) == FALSE

\* line 71: len(text) > self.max_chars_per_request
TooLong(x) == TextLen(x) > max_chars_per_request

\* lines 67-75: the empty short-circuit and the size validation
translate_text_enter ==
    /\ tt.pc = "start"
    /\ tt' = IF IsBlank(tt.text)
             THEN [tt EXCEPT !.pc = "done", !.result = EmptyText]
             ELSE IF TooLong(tt.text)
             THEN [tt EXCEPT !.pc = "raised", !.error = <<"ValueError", 0>>]
             ELSE [tt EXCEPT !.pc = "attempt"]
    /\ UNCHANGED <<rateVars, offVars>>

\* line 86: self._check_rate_limit()
translate_text_check_rate_limit ==
    /\ tt.pc = "attempt"
    /\ rl[TT].pc = "idle"
    /\ rl' = [rl EXCEPT ![TT].pc = "call"]
    /\ UNCHANGED <<now, zset, admitted, limiterFault, tt, offVars>>

\* a limiter call hoisted out of the loop: only the first attempt waits for it
LimiterReturnedFirstOnly(attempt) ==
    IF attempt = 0 THEN rl[TT].pc = "ret" ELSE rl[TT].pc \in {"idle", "ret"}

\* lines 83-89: self._check_rate_limit() is the first statement of the body
\* of the for loop; the provider call of an attempt follows its return
LimiterReturned(attempt) == rl[TT].pc = "ret"

\* lines 89-119: the provider call of this attempt and what follows it
translate_text_call ==
    /\ tt.pc = "attempt"
    /\ LimiterReturned(tt.attempt)
    /\ rl' = [rl EXCEPT ![TT].pc = "idle"]
    /\ LET n == tt.calls + 1
           called == [tt EXCEPT !.calls = n, !.callAt = Append(@, now)]
       IN  tt' = IF n > tt.fails
                 THEN [called EXCEPT !.pc = "done", !.result = ProviderText(tt.text)]
                 ELSE IF MayRetry(tt.attempt)
                 THEN [called EXCEPT !.pc = "backoff",
                                     !.waits = Append(@, BackoffWait(tt.attempt)),
                                     !.wake = now + BackoffWait(tt.attempt) * WindowTicks]
                 ELSE [called EXCEPT !.pc = "raised", !.error = <<"Exception", n>>]
    /\ UNCHANGED <<now, zset, admitted, limiterFault, offVars>>

\* line 117 returns: the for loop takes the next attempt, or ends
translate_text_next_attempt ==
    /\ tt.pc = "backoff"
    /\ now >= tt.wake
    /\ tt' = IF tt.attempt + 1 < retry_attempts
             THEN [tt EXCEPT !.pc = "attempt", !.attempt = @ + 1]
             ELSE [tt EXCEPT !.pc = "done", !.result = None]
    /\ UNCHANGED <<rateVars, offVars>>

\* the invocation is inside time.sleep (line 117, or line 36 of the limiter);
\* in SpecRetry time passes only then: the other steps take no time
translate_text_sleeping ==
    \/ tt.pc = "backoff" /\ now < tt.wake
    \/ rl[TT].pc = "sleep" /\ now < rl[TT].wake

InitRetry ==
    /\ InitLimiter(RetryMaxTime)
    /\ \E n \in 0..max_requests_per_second :
          zset = [EmptyBag(RetryMaxTime) EXCEPT ![0] = n]
    /\ \E x \in RetryTexts, k \in 0..MaxProviderFails :
          tt = [pc |-> "start", text |-> x, fails |-> k, attempt |-> 0,
                calls |-> 0, callAt |-> <<>>, waits |-> <<>>, wake |-> 0,
                result |-> Unset, error |-> <<"none", 0>>]
    /\ CacheOff

NextRetry ==
    \/ translate_text_enter
    \/ translate_text_check_rate_limit
    \/ check_rate_limit_trim(TT) /\ UNCHANGED <<retryVars, offVars>>
    \/ check_rate_limit_count(TT) /\ UNCHANGED <<retryVars, offVars>>
    \/ check_rate_limit_register(TT) /\ UNCHANGED <<retryVars, offVars>>
    \/ check_rate_limit_expire(TT) /\ UNCHANGED <<retryVars, offVars>>
    \/ check_rate_limit_except(TT) /\ UNCHANGED <<retryVars, offVars>>
    \/ translate_text_call
    \/ translate_text_next_attempt
    \/ translate_text_sleeping /\ Tick(RetryMaxTime)
         /\ UNCHANGED <<retryVars, offVars>>

SpecRetry == InitRetry /\ [][NextRetry]_vars

\* the text passes the checks of lines 67-75
Translatable(x) == ~IsBlank(x) /\ TextLen(x) <= max_chars_per_request

\* the waits the retry loop has slept after k failed attempts
WaitsAfter(k) == [i \in 1..k |-> Pow(backoff_multiplier, i - 1)]

(***************************************************************************)
(* C8: a provider that raises a transient error on the first k attempts,   *)
(* k < retry_attempts, and then succeeds: translate_text returns the       *)
(* provider's result after exactly k+1 provider calls, never raises, and   *)
(* the waits between consecutive attempts are backoff_multiplier^attempt   *)
(* seconds (1 then 2), strictly increasing, each fully slept before the    *)
(* next call.                                                              *)
(***************************************************************************)
C8_RetryThenSuccess ==
    (Translatable(tt.text) /\ tt.fails < retry_attempts) =>
        /\ tt.pc # "raised"
        /\ tt.calls <= tt.fails + 1
        /\ tt.pc = "done" =>
             /\ tt.result = ProviderText(tt.text)
             /\ tt.calls = tt.fails + 1
             /\ tt.waits = WaitsAfter(tt.fails)
             /\ \A i \in 1..Len(tt.waits) :
                  /\ i > 1 => tt.waits[i] > tt.waits[i - 1]
                  /\ tt.callAt[i + 1] - tt.callAt[i] >= tt.waits[i] * WindowTicks

C8_Witness ==
    /\ tt.pc = "done"
    /\ tt.fails = 2
    /\ tt.calls = 3
    /\ tt.waits = <<1, 2>>

(***************************************************************************)
(* C9: a provider that raises a transient error on every attempt:          *)
(* translate_text makes exactly retry_attempts provider calls, does not    *)
(* wait after the last failed attempt, and raises a terminal error that    *)
(* carries the last failure; it never returns a value.                     *)
(***************************************************************************)
C9_RetriesExhausted ==
    (Translatable(tt.text) /\ tt.fails >= retry_attempts) =>
        /\ tt.pc # "done"
        /\ tt.calls <= retry_attempts
        /\ tt.pc = "backoff" => tt.calls < retry_attempts
        /\ tt.pc = "raised" =>
             /\ tt.calls = retry_attempts
             /\ tt.error = <<"Exception", retry_attempts>>
             /\ Len(tt.waits) = retry_attempts - 1
             /\ tt.result = Unset

C9_Witness ==
    /\ tt.pc = "raised"
    /\ tt.fails >= retry_attempts
    /\ tt.calls = retry_attempts


(***************************************************************************)
(* CacheService.generate_cache_key.  SHA-256 is taken to be injective: the *)
(* key is the hashed string itself.                                        *)
(***************************************************************************)
\* the characters str.strip() and str.split() take for white space
IsSpace(c) == c \in {" ", "\n"}

\* a lower() that leaves every character as it is
LowerIdentity(c) == c

\* str.lower() on the model's alphabet
Lower(c) == CASE c = "A" -> "a" [] c = "B" -> "b" [] OTHER -> c

RECURSIVE NormalizeFrom(_, _, _, _)
\* ' '.join(s.strip().lower().split()), character by character
NormalizeFrom(s, i, out, gap) ==
    IF i > Len(s) THEN out
    ELSE IF IsSpace(s[i]) THEN NormalizeFrom(s, i + 1, out, TRUE)
    ELSE NormalizeFrom(s, i + 1,
             (IF gap /\ out # <<>> THEN out \o <<" ">> ELSE out) \o <<Lower(s[i])>>,
             FALSE)

\* line 53; the pad letters of a long text follow as one block
normalized_text(x) ==
    NormalizeFrom(IF x.pad = 0 THEN x.s ELSE x.s \o <<[letters |-> x.pad]>>,
                  1, <<>>, FALSE)

\* lines 53-60
generate_cache_key(x, source_lang, target_lang) ==
    normalized_text(x) \o <<"|">> \o source_lang \o <<"|">> \o target_lang

EN == <<"e", "n">>
PT == <<"p", "t">>

\* the texts the cache and job specifications work on
TextLower == Txt(<<"a">>, 0)
TextUpper == Txt(<<"A", " ">>, 0)
TextOther == Txt(<<"b">>, 0)
Texts == {TextLower, TextUpper, TextOther}

CacheKeys == {generate_cache_key(x, EN, PT) : x \in Texts}

Workers == 1..NWorkers

(***************************************************************************)
(* CacheService.get_from_cache, one action per store round trip.           *)
(***************************************************************************)
KeyOf(w) == generate_cache_key(loc[w].text, loc[w].source_lang, loc[w].target_lang)

Goto(w, label) == pc' = [pc EXCEPT ![w] = label]

\* the durable tier after a lookup served by Redis, with the hit counted there too
DurableAfterRedisHitCounted(data) ==
    {IF r.id = data.cache_id
     THEN [r EXCEPT !.hit_count = @ + 1, !.last_used = "new"]
     ELSE r : r \in durable}

\* lines 110-119: a Redis hit returns without touching the durable tier
DurableAfterRedisHit(data) == durable

\* lines 99-121: redis_client.get(redis_key); a hit returns at once
get_from_cache_redis(w) ==
    /\ pc[w] = "gc_redis"
    /\ \E up \in BOOLEAN :
         LET cached_redis == IF up THEN redis[KeyOf(w)] ELSE None
         IN  IF cached_redis # None
             THEN /\ loc' = [loc EXCEPT ![w].ret =
                               [translated_text |-> cached_redis.translated_text,
                                cache_id |-> cached_redis.cache_id,
                                from_redis |-> TRUE,
                                hit_count |-> cached_redis.hit_count]]
                  /\ durable' = DurableAfterRedisHit(cached_redis)
                  /\ served' = served \cup {cached_redis.cache_id}
                  /\ Goto(w, "gc_ret")
             ELSE /\ Goto(w, "gc_query")
                  /\ UNCHANGED <<loc, durable, served>>
    /\ UNCHANGED <<uniqueHash, nextId, redis, dbFaults>>

\* a durable query that finds nothing
LookupMatchesNone(w) == {}

\* lines 124-130: the rows the query of get_from_cache matches
LookupMatches(w) ==
    {r \in durable : /\ r.text_hash = KeyOf(w)
                     /\ r.source_language = loc[w].source_lang
                     /\ r.target_language = loc[w].target_lang}

\* lines 124-132 and 166-172: the durable query; no row, or an error, returns None
get_from_cache_query(w) ==
    /\ pc[w] = "gc_query"
    /\ \/ /\ dbFaults < MaxDbFaults
          /\ dbFaults' = dbFaults + 1
          /\ loc' = [loc EXCEPT ![w].ret = None, ![w].queried = TRUE]
          /\ Goto(w, "gc_ret")
       \/ /\ LookupMatches(w) = {}
          /\ loc' = [loc EXCEPT ![w].ret = None, ![w].queried = TRUE]
          /\ Goto(w, "gc_ret")
          /\ UNCHANGED dbFaults
       \/ /\ \E r \in LookupMatches(w) :
               loc' = [loc EXCEPT ![w].row = r, ![w].queried = TRUE]
          /\ Goto(w, "gc_commit")
          /\ UNCHANGED dbFaults
    /\ UNCHANGED <<uniqueHash, served, durable, nextId, redis>>

\* the row with primary key id, as a set
RowById(id) == {r \in durable : r.id = id}

\* a hit that is not counted
HitUpdateNone(cur, read) == [cur EXCEPT !.last_used = "new"]

\* lines 134-135: hit_count += 1 on the value read; last_used = utcnow()
HitUpdate(cur, read) ==
    [cur EXCEPT !.hit_count = read.hit_count + 1, !.last_used = "new"]

\* lines 134-141: the UPDATE and its commit
get_from_cache_commit(w) ==
    /\ pc[w] = "gc_commit"
    /\ LET read == loc[w].row
           here == RowById(read.id)
       IN  \/ \* the row is there and the commit succeeds
              /\ here # {}
              /\ \E cur \in here :
                   /\ durable' = (durable \ {cur}) \cup {HitUpdate(cur, read)}
                   /\ loc' = [loc EXCEPT ![w].row = HitUpdate(cur, read)]
              /\ Goto(w, "gc_setex")
              /\ UNCHANGED dbFaults
           \/ \* the row is gone: the UPDATE matches nothing, rollback; the
              \* expired instance cannot be reloaded and line 159 raises
              /\ here = {}
              /\ loc' = [loc EXCEPT ![w].ret = None, ![w].row = None]
              /\ Goto(w, "gc_ret")
              /\ UNCHANGED <<durable, dbFaults>>
           \/ \* the commit raises: rollback (line 141), the instance reloads
              /\ here # {}
              /\ dbFaults < MaxDbFaults
              /\ dbFaults' = dbFaults + 1
              /\ \E cur \in here : loc' = [loc EXCEPT ![w].row = cur]
              /\ Goto(w, "gc_setex")
              /\ UNCHANGED durable
    /\ UNCHANGED <<uniqueHash, served, nextId, redis>>

\* line 28: self.redis_ttl, in seconds
redis_ttl == 3600

\* what setex leaves under a cache key: the JSON record of a row, and the TTL
RedisRecord(translated_text, id, hit_count) ==
    [translated_text |-> translated_text, cache_id |-> id, hit_count |-> hit_count,
     ttl |-> redis_ttl]

\* lines 144-164: redis_client.setex (best effort) and the return value
get_from_cache_setex(w) ==
    /\ pc[w] = "gc_setex"
    /\ LET row == loc[w].row
       IN  /\ \E up \in BOOLEAN :
                redis' = IF up
                         THEN [redis EXCEPT ![KeyOf(w)] =
                                 RedisRecord(row.translated_text, row.id, row.hit_count)]
                         ELSE redis
           /\ loc' = [loc EXCEPT ![w].ret =
                        [translated_text |-> row.translated_text,
                         cache_id |-> row.id,
                         from_redis |-> FALSE,
                         hit_count |-> row.hit_count]]
           /\ served' = served \cup {row.id}
    /\ Goto(w, "gc_ret")
    /\ UNCHANGED <<uniqueHash, durable, nextId, dbFaults>>


(***************************************************************************)
(* CacheService.save_to_cache                                              *)
(***************************************************************************)
\* an exists-check that never finds a row
ExistingNever(text_hash) == {}

\* lines 197-199: the rows the exists-check matches (text_hash only)
Existing(text_hash) == {r \in durable : r.text_hash = text_hash}

\* lines 194-203: the exists-check; an existing row is returned as it is
save_to_cache_query(w) ==
    /\ pc[w] = "sc_query"
    /\ \/ /\ dbFaults < MaxDbFaults
          /\ dbFaults' = dbFaults + 1
          /\ loc' = [loc EXCEPT ![w].ret = [raised |-> "DBError"]]
          /\ Goto(w, "sc_raised")
       \/ /\ Existing(KeyOf(w)) = {}
          /\ Goto(w, "sc_insert")
          /\ UNCHANGED <<loc, dbFaults>>
       \/ /\ \E existing \in Existing(KeyOf(w)) :
               loc' = [loc EXCEPT ![w].ret = existing]
          /\ Goto(w, "sc_ret")
          /\ UNCHANGED dbFaults
    /\ UNCHANGED <<uniqueHash, served, durable, nextId, redis>>

\* lines 206-215: the new TranslationCache row
NewRow(w) ==
    [id |-> nextId,
     text_hash |-> KeyOf(w),
     source_language |-> loc[w].source_lang,
     target_language |-> loc[w].target_lang,
     translated_text |-> loc[w].tr,
     hit_count |-> 0,
     last_used |-> "new"]

\* lines 217-219 and 236-239: add, commit, refresh; an error rolls back and raises
save_to_cache_insert(w) ==
    /\ pc[w] = "sc_insert"
    /\ \/ /\ dbFaults < MaxDbFaults
          /\ dbFaults' = dbFaults + 1
          /\ loc' = [loc EXCEPT ![w].ret = [raised |-> "DBError"]]
          /\ Goto(w, "sc_raised")
          /\ UNCHANGED <<durable, nextId>>
       \/ \* the schema's UNIQUE constraint rejects a second row of the hash
          /\ uniqueHash
          /\ \E r \in durable : r.text_hash = KeyOf(w)
          /\ loc' = [loc EXCEPT ![w].ret = [raised |-> "IntegrityError"]]
          /\ Goto(w, "sc_raised")
          /\ UNCHANGED <<durable, nextId, dbFaults>>
       \/ /\ uniqueHash => ~ \E r \in durable : r.text_hash = KeyOf(w)
          /\ nextId <= MaxRows
          /\ durable' = durable \cup {NewRow(w)}
          /\ nextId' = nextId + 1
          /\ loc' = [loc EXCEPT ![w].row = NewRow(w)]
          /\ Goto(w, "sc_setex")
          /\ UNCHANGED dbFaults
    /\ UNCHANGED <<uniqueHash, served, redis>>

\* lines 222-234: redis_client.setex (best effort); the new row is returned
save_to_cache_setex(w) ==
    /\ pc[w] = "sc_setex"
    /\ \E up \in BOOLEAN :
         redis' = IF up
                  THEN [redis EXCEPT ![KeyOf(w)] =
                          RedisRecord(loc[w].tr, loc[w].row.id, 0)]
                  ELSE redis
    /\ loc' = [loc EXCEPT ![w].ret = loc[w].row]
    /\ Goto(w, "sc_ret")
    /\ UNCHANGED <<uniqueHash, served, durable, nextId, dbFaults>>

(***************************************************************************)
(* CacheService.batch_save_to_cache.  The rows added to the session are    *)
(* written by the commit of line 294, or earlier by the flush that a query *)
(* of the loop triggers when the session autoflushes.                      *)
(***************************************************************************)
\* the items of translations so far added to the session, as rows
AddedRows(w) == {loc[w].added[i] : i \in 1..Len(loc[w].added)}

\* lines 271-273: the rows the exists-check of the loop sees: the committed
\* ones and, with autoflush, those the session has added
BatchExisting(w, text_hash) ==
    Existing(text_hash) \cup
    (IF loc[w].autoflush
     THEN {r \in AddedRows(w) : r.text_hash = text_hash}
     ELSE {})

\* lines 280-289: the new TranslationCache of an item
BatchRow(w, item) ==
    [id |-> nextId + Len(loc[w].added),
     text_hash |-> generate_cache_key(item.original_text, item.source_lang,
                                      item.target_lang),
     source_language |-> item.source_lang,
     target_language |-> item.target_lang,
     translated_text |-> item.translated_text,
     hit_count |-> 0,
     last_used |-> "new"]

\* lines 263-292: one turn of the for loop over translations, or its end
batch_save_to_cache_item(w) ==
    /\ pc[w] = "bs_loop"
    /\ IF loc[w].bidx < Len(loc[w].batch)
       THEN LET item == loc[w].batch[loc[w].bidx + 1]
                text_hash == generate_cache_key(item.original_text, item.source_lang,
                                                item.target_lang)
            IN  \/ /\ dbFaults < MaxDbFaults
                   /\ dbFaults' = dbFaults + 1
                   /\ loc' = [loc EXCEPT ![w].ret = [raised |-> "DBError"]]
                   /\ Goto(w, "bs_raised")
                \/ /\ \E existing \in BatchExisting(w, text_hash) :
                        loc' = [loc EXCEPT ![w].cache_entries = Append(@, existing),
                                           ![w].bidx = @ + 1]
                   /\ UNCHANGED <<pc, dbFaults>>
                \/ /\ BatchExisting(w, text_hash) = {}
                   /\ nextId + Len(loc[w].added) <= MaxRows
                   /\ loc' = [loc EXCEPT
                                ![w].cache_entries = Append(@, BatchRow(w, item)),
                                ![w].added = Append(@, BatchRow(w, item)),
                                ![w].bidx = @ + 1]
                   /\ UNCHANGED <<pc, dbFaults>>
       ELSE /\ Goto(w, "bs_commit")
            /\ UNCHANGED <<loc, dbFaults>>
    /\ UNCHANGED <<uniqueHash, served, durable, nextId, redis>>

\* the added rows break the schema's UNIQUE constraint on text_hash
BatchConflict(w) ==
    \/ \E i, j \in 1..Len(loc[w].added) :
          i # j /\ loc[w].added[i].text_hash = loc[w].added[j].text_hash
    \/ \E r \in AddedRows(w) : Existing(r.text_hash) \ {r} # {}

\* lines 294 and 312-315: the commit; an error rolls back and raises
batch_save_to_cache_commit(w) ==
    /\ pc[w] = "bs_commit"
    /\ \/ /\ dbFaults < MaxDbFaults
          /\ dbFaults' = dbFaults + 1
          /\ loc' = [loc EXCEPT ![w].ret = [raised |-> "DBError"]]
          /\ Goto(w, "bs_raised")
          /\ UNCHANGED <<durable, nextId>>
       \/ /\ uniqueHash /\ BatchConflict(w)
          /\ loc' = [loc EXCEPT ![w].ret = [raised |-> "IntegrityError"]]
          /\ Goto(w, "bs_raised")
          /\ UNCHANGED <<durable, nextId, dbFaults>>
       \/ /\ uniqueHash => ~ BatchConflict(w)
          /\ durable' = durable \cup AddedRows(w)
          /\ nextId' = nextId + Len(loc[w].added)
          /\ loc' = [loc EXCEPT ![w].bidx = 0]
          /\ Goto(w, "bs_setex")
          /\ UNCHANGED dbFaults
    /\ UNCHANGED <<uniqueHash, served, redis>>

\* lines 297-310: redis_client.setex for every entry of cache_entries, each
\* best effort; then the list is returned
batch_save_to_cache_setex(w) ==
    /\ pc[w] = "bs_setex"
    /\ IF loc[w].bidx < Len(loc[w].cache_entries)
       THEN LET cache_entry == loc[w].cache_entries[loc[w].bidx + 1]
            IN  /\ \E up \in BOOLEAN :
                     redis' = IF up
                              THEN [redis EXCEPT ![cache_entry.text_hash] =
                                      RedisRecord(cache_entry.translated_text,
                                                  cache_entry.id, 0)]
                              ELSE redis
                /\ loc' = [loc EXCEPT ![w].bidx = @ + 1]
                /\ UNCHANGED pc
       ELSE /\ loc' = [loc EXCEPT ![w].ret = loc[w].cache_entries]
            /\ Goto(w, "bs_ret")
            /\ UNCHANGED redis
    /\ UNCHANGED <<uniqueHash, served, durable, nextId, dbFaults>>

(***************************************************************************)
(* CacheService.clear_old_cache                                            *)
(***************************************************************************)
\* lines 460-465: last_used < cutoff_date and hit_count == 0
OldEntries == {r \in durable : r.last_used = "old" /\ r.hit_count = 0}

\* lines 458-467: the query for old entries
clear_old_cache_query(w) ==
    /\ pc[w] = "cc_query"
    /\ \/ /\ dbFaults < MaxDbFaults
          /\ dbFaults' = dbFaults + 1
          /\ loc' = [loc EXCEPT ![w].ret = [count |-> 0]]
          /\ Goto(w, "cc_ret")
       \/ /\ loc' = [loc EXCEPT ![w].old_entries = OldEntries]
          /\ Goto(w, "cc_redis")
          /\ UNCHANGED dbFaults
    /\ UNCHANGED <<uniqueHash, served, durable, nextId, redis>>

\* lines 470-475: redis_client.delete per entry, each best effort
clear_old_cache_redis(w) ==
    /\ pc[w] = "cc_redis"
    /\ \E deleted \in SUBSET {r.text_hash : r \in loc[w].old_entries} :
         redis' = [k \in DOMAIN redis |-> IF k \in deleted THEN None ELSE redis[k]]
    /\ Goto(w, "cc_delete")
    /\ UNCHANGED <<uniqueHash, served, durable, nextId, dbFaults, loc>>

\* lines 478-489: delete every entry by primary key, commit, return the count
clear_old_cache_delete(w) ==
    /\ pc[w] = "cc_delete"
    /\ \/ /\ dbFaults < MaxDbFaults
          /\ dbFaults' = dbFaults + 1
          /\ loc' = [loc EXCEPT ![w].ret = [count |-> 0], ![w].old_entries = {}]
          /\ UNCHANGED durable
       \/ /\ durable' = {r \in durable : r.id \notin {o.id : o \in loc[w].old_entries}}
          /\ loc' = [loc EXCEPT ![w].ret = [count |-> Cardinality(loc[w].old_entries)],
                                ![w].old_entries = {}]
          /\ UNCHANGED dbFaults
    /\ Goto(w, "cc_ret")
    /\ UNCHANGED <<uniqueHash, served, nextId, redis>>

(***************************************************************************)
(* The stores' own behaviour                                               *)
(***************************************************************************)
\* a Redis call raises: the volatile tier is as it was
RedisUnavailable == redis' = redis

\* the TTL (self.redis_ttl, 3600 s) of a cache key runs out
redis_ttl_expire(k) ==
    /\ redis[k] # None
    /\ redis' = [redis EXCEPT ![k] = None]
    /\ UNCHANGED <<uniqueHash, served, durable, nextId, dbFaults, pc, loc>>

\* some time passes between operations, less than days_old: utcnow() is later
\* than every last_used
time_passes ==
    /\ \A w \in Workers : pc[w] = "idle"
    /\ \E r \in durable : r.last_used = "new"
    /\ durable' = {IF r.last_used = "new" THEN [r EXCEPT !.last_used = "recent"] ELSE r :
                      r \in durable}
    /\ UNCHANGED <<uniqueHash, served, nextId, redis, dbFaults, pc, loc>>

\* days_old (90) days pass while no operation runs: every row's last_used is
\* before the cutoff, and every Redis key has expired
age_out ==
    /\ \A w \in Workers : pc[w] = "idle"
    /\ \E r \in durable : r.last_used # "old"
    /\ durable' = {[r EXCEPT !.last_used = "old"] : r \in durable}
    /\ redis' = [k \in DOMAIN redis |-> None]
    /\ UNCHANGED <<uniqueHash, served, nextId, dbFaults, pc, loc>>

(***************************************************************************)
(* SpecCache: clients that call the three operations of CacheService.      *)
(***************************************************************************)
\* what a caller passes as translated_text
Translations == {ProviderText(TextLower), ProviderText(TextOther)}

NoJob == 0

\* the locals of a worker; those of process_translation, then those of
\* batch_save_to_cache
LocIdle ==
    [text |-> EmptyText, source_lang |-> EN, target_lang |-> PT, tr |-> EmptyText,
     row |-> None, old_entries |-> {}, queried |-> FALSE, ret |-> Unset,
     job |-> NoJob, chunks |-> <<>>, idx |-> 0, cached_chars |-> 0,
     total_translated_chars |-> 0, from_cache |-> FALSE, error |-> None,
     session_ok |-> TRUE, user_credits |-> 0,
     batch |-> <<>>, bidx |-> 0, cache_entries |-> <<>>, added |-> <<>>,
     autoflush |-> TRUE, seen |-> None]

\* the largest hit_count of the table
HitsBelowBound == \A r \in durable : r.hit_count < MaxHits

client_get_from_cache(w, x) ==
    /\ pc[w] = "idle"
    /\ HitsBelowBound
    /\ loc' = [loc EXCEPT ![w] = [LocIdle EXCEPT !.text = x]]
    /\ Goto(w, "gc_redis")
    /\ UNCHANGED cacheVars

client_save_to_cache(w, x, translated) ==
    /\ pc[w] = "idle"
    /\ loc' = [loc EXCEPT ![w] = [LocIdle EXCEPT !.text = x, !.tr = translated]]
    /\ Goto(w, "sc_query")
    /\ UNCHANGED cacheVars

client_clear_old_cache(w) ==
    /\ pc[w] = "idle"
    /\ loc' = [loc EXCEPT ![w] = LocIdle]
    /\ Goto(w, "cc_query")
    /\ UNCHANGED cacheVars

\* the operation has returned or raised; its result is consumed
client_return(w) ==
    /\ pc[w] \in {"gc_ret", "sc_ret", "sc_raised", "cc_ret", "bs_ret", "bs_raised"}
    /\ loc[w].job = NoJob
    /\ loc' = [loc EXCEPT ![w] = LocIdle]
    /\ Goto(w, "idle")
    /\ UNCHANGED cacheVars

LimiterOff ==
    /\ now = 0
    /\ zset = <<>>
    /\ rl = <<>>
    /\ admitted = <<>>
    /\ limiterFault = 0
    /\ tt = TtIdle

InitStores ==
    /\ uniqueHash \in BOOLEAN
    /\ durable = {}
    /\ nextId = 1
    /\ redis = [k \in CacheKeys |-> None]
    /\ dbFaults = 0
    /\ served = {}

JobsOff ==
    /\ translations = <<>>
    /\ chunkRows = <<>>
    /\ credits = 0
    /\ progressStore = <<>>
    /\ debited = <<>>

InitCache ==
    /\ LimiterOff
    /\ InitStores
    /\ pc = [w \in Workers |-> "idle"]
    /\ loc = [w \in Workers |-> LocIdle]
    /\ JobsOff

limiterVars == <<rateVars, retryVars, jobVars>>

NextCacheOf(ws, texts, translateds) ==
    \/ \E w \in ws :
         \/ \E x \in texts : client_get_from_cache(w, x) /\ UNCHANGED limiterVars
         \/ \E x \in texts, translated \in translateds :
              client_save_to_cache(w, x, translated) /\ UNCHANGED limiterVars
         \/ client_clear_old_cache(w) /\ UNCHANGED limiterVars
         \/ client_return(w) /\ UNCHANGED limiterVars
         \/ get_from_cache_redis(w) /\ UNCHANGED limiterVars
         \/ get_from_cache_query(w) /\ UNCHANGED limiterVars
         \/ get_from_cache_commit(w) /\ UNCHANGED limiterVars
         \/ get_from_cache_setex(w) /\ UNCHANGED limiterVars
         \/ save_to_cache_query(w) /\ UNCHANGED limiterVars
         \/ save_to_cache_insert(w) /\ UNCHANGED limiterVars
         \/ save_to_cache_setex(w) /\ UNCHANGED limiterVars
         \/ clear_old_cache_query(w) /\ UNCHANGED limiterVars
         \/ clear_old_cache_redis(w) /\ UNCHANGED limiterVars
         \/ clear_old_cache_delete(w) /\ UNCHANGED limiterVars
    \/ \E k \in CacheKeys : redis_ttl_expire(k) /\ UNCHANGED limiterVars
    \/ time_passes /\ UNCHANGED limiterVars
    \/ age_out /\ UNCHANGED limiterVars

\* the inputs of the concurrent clients
ConcurrentTexts == {TextLower, TextUpper}
ConcurrentTranslations == {ProviderText(TextLower)}

NextCache == NextCacheOf(Workers, ConcurrentTexts, ConcurrentTranslations)

\* concurrent clients
SpecCache == InitCache /\ [][NextCache]_vars

NextCacheSeq == NextCacheOf({1}, Texts, Translations)

\* one client: the operations run one after the other
SpecCacheSeq == InitCache /\ [][NextCacheSeq]_vars


(***************************************************************************)
(* Properties of CacheService                                              *)
(***************************************************************************)
SavingAt == {"sc_query", "sc_insert", "sc_setex"}

\* C3: when two workers call save_to_cache concurrently for the same key,
\* whatever the interleaving of their exists-checks and inserts, the durable
\* tier holds at most one entry of the key and no writer fails on the key
\* (the later writer returns the existing entry instead).
C3_ConcurrentSaveOneEntry ==
    /\ \A k \in CacheKeys : Cardinality(Existing(k)) <= 1
    /\ \A w \in Workers :
         pc[w] = "sc_raised" => loc[w].ret.raised # "IntegrityError"

\* C7: save_to_cache called one call after the other leaves one durable entry
\* per key; a call that finds the key returns the entry that is there, its
\* translated text unchanged whatever translated_text was passed; and no step
\* of save_to_cache changes or removes an entry (its hit_count included).
C7_SaveIdempotent ==
    /\ [](\A k \in CacheKeys : Cardinality(Existing(k)) <= 1)
    /\ [](\A w \in Workers :
            pc[w] = "sc_ret" => Existing(KeyOf(w)) = {loc[w].ret})
    /\ [][\A w \in Workers :
            (pc[w] \in SavingAt /\ pc'[w] # pc[w]) =>
               /\ durable \subseteq durable'
               /\ Existing(KeyOf(w)) # {} => durable' = durable]_vars

\* a second save of a key, passing another translated_text, has returned the
\* entry of the first save, which a lookup had counted in between
C7_Witness ==
    \E w \in Workers :
       /\ pc[w] = "sc_ret"
       /\ loc[w].ret.translated_text # loc[w].tr
       /\ loc[w].ret.hit_count > 0

\* C10: a lookup served by the volatile tier leaves the durable tier as it
\* was (hit_count and last_used of every entry), and issues no durable query.
C10_RedisHitLeavesDurable ==
    /\ [](\A w \in Workers :
            (pc[w] = "gc_ret" /\ loc[w].ret # None /\ loc[w].ret.from_redis)
               => ~ loc[w].queried)
    /\ [][\A w \in Workers :
            (pc[w] \in {"idle", "gc_redis"} /\ pc'[w] \in {"gc_redis", "gc_ret"}
             /\ pc'[w] # pc[w])
               => durable' = durable]_vars

\* a lookup was served by Redis while the durable entry it names was last used
\* some time ago
C10_Witness ==
    \E w \in Workers :
       /\ pc[w] = "gc_ret"
       /\ loc[w].ret # None
       /\ loc[w].ret.from_redis
       /\ \E r \in durable : r.id = loc[w].ret.cache_id /\ r.last_used = "recent"

(***************************************************************************)
(* DeepLService._protect_glossary_terms and _restore_glossary_terms.       *)
(* A string is a sequence of characters; a dict is the sequence of its     *)
(* items in insertion order.                                               *)
(***************************************************************************)
\* s[i..] starts with sub
StartsAt(s, sub, i) ==
    /\ i + Len(sub) - 1 <= Len(s)
    /\ \A k \in 1..Len(sub) : s[i + k - 1] = sub[k]

\* sub in s
Contains(s, sub) == \E i \in 1..(Len(s) + 1) : StartsAt(s, sub, i)

\* s.find(sub) + 1: the leftmost position at which sub occurs in s, 0 if none
Find(s, sub) ==
    IF Contains(s, sub)
    THEN CHOOSE i \in 1..(Len(s) + 1) :
            /\ StartsAt(s, sub, i)
            /\ \A k \in 1..(i - 1) : ~ StartsAt(s, sub, k)
    ELSE 0

RECURSIVE Replace(_, _, _)
\* s.replace(old, new): the occurrences of old, leftmost first, none
\* overlapping another; old is not empty
Replace(s, old, new) ==
    LET i == Find(s, old)
    IN  IF i = 0 THEN s
        ELSE SubSeq(s, 1, i - 1) \o new
               \o Replace(SubSeq(s, i + Len(old), Len(s)), old, new)

DigitChar(d) ==
    CASE d = 0 -> "0" [] d = 1 -> "1" [] d = 2 -> "2" [] d = 3 -> "3" [] d = 4 -> "4"
      [] d = 5 -> "5" [] d = 6 -> "6" [] d = 7 -> "7" [] d = 8 -> "8" [] d = 9 -> "9"

RECURSIVE Decimal(_)
\* str(n) for n >= 0
Decimal(n) == IF n < 10 THEN <<DigitChar(n)>> ELSE Append(Decimal(n \div 10), DigitChar(n % 10))

\* the literal of line 130
GlossaryPrefix == <<"G", "L", "O", "S", "S", "A", "R", "Y", "_", "T", "E", "R", "M", "_">>

\* line 130: f"GLOSSARY_TERM_{idx}"
Placeholder(idx) == GlossaryPrefix \o Decimal(idx)

RECURSIVE InsertByLen(_, _)
\* term put into a list sorted by descending length, after the terms as long
InsertByLen(sorted, term) ==
    IF sorted = <<>> THEN <<term>>
    ELSE IF Len(Head(sorted)) >= Len(term)
    THEN <<Head(sorted)>> \o InsertByLen(Tail(sorted), term)
    ELSE <<term>> \o sorted

RECURSIVE SortedByLen(_, _)
SortedByLen(keys, n) ==
    IF n = 0 THEN <<>> ELSE InsertByLen(SortedByLen(keys, n - 1), keys[n])

\* line 126: sorted(glossary.keys(), key=len, reverse=True), a stable sort
SortedTerms(glossary) ==
    SortedByLen([i \in 1..Len(glossary) |-> glossary[i].term], Len(glossary))

\* glossary[term]
ValueOf(glossary, term) ==
    (CHOOSE e \in {glossary[i] : i \in 1..Len(glossary)} : e.term = term).value

\* line 132: what the map records for the placeholder of a term
Recorded(glossary, term) == ValueOf(glossary, term)

RECURSIVE ProtectFrom(_, _, _, _, _)
\* lines 128-132, from index idx (from 0) of sorted_terms on
ProtectFrom(protected_text, placeholders, sorted_terms, glossary, idx) ==
    IF idx >= Len(sorted_terms)
    THEN [text |-> protected_text, placeholders |-> placeholders]
    ELSE LET term == sorted_terms[idx + 1]
         IN  IF Contains(protected_text, term)
             THEN ProtectFrom(Replace(protected_text, term, Placeholder(idx)),
                              Append(placeholders,
                                     [placeholder |-> Placeholder(idx),
                                      value |-> Recorded(glossary, term)]),
                              sorted_terms, glossary, idx + 1)
             ELSE ProtectFrom(protected_text, placeholders, sorted_terms, glossary, idx + 1)

\* lines 121-134
protect_glossary_terms(text, glossary) ==
    ProtectFrom(text, <<>>, SortedTerms(glossary), glossary, 0)

RECURSIVE RestoreFrom(_, _, _)
\* lines 140-141, from item k of the map on
RestoreFrom(restored_text, placeholders, k) ==
    IF k > Len(placeholders) THEN restored_text
    ELSE RestoreFrom(Replace(restored_text, placeholders[k].placeholder,
                             placeholders[k].value),
                     placeholders, k + 1)

\* lines 136-143
restore_glossary_terms(text, placeholders) == RestoreFrom(text, placeholders, 1)

(***************************************************************************)
(* TranslationService.process_translation.  A job is a row of the table    *)
(* translations and the text its caller passes as text_content; a document *)
(* is written as the sequence of chunks the splitter makes of it.          *)
(***************************************************************************)
JobIds == 1..NJobs

\* an id no row of translations has
MissingId == NJobs + 1

Docs == { <<>>, <<TextLower>>, <<TextLower, TextUpper>>, <<TextLower, TextOther>> }

\* the summed length of the chunks of a document
RECURSIVE DocLen(_)
DocLen(d) == IF d = <<>> THEN 0 ELSE TextLen(Head(d)) + DocLen(Tail(d))

\* the number of chunks a preview processes
PreviewChunks == 1

\* TextSplitter.split_text: in preview mode, a prefix of the chunks
split_text(text_content, is_preview) ==
    IF is_preview /\ Len(text_content) > PreviewChunks
    THEN SubSeq(text_content, 1, PreviewChunks)
    ELSE text_content

\* a row of translations as its creator leaves it; runs, after and hits_done
\* are history: the invocations so far, the jobs that were completed when the
\* last invocation began, and the hit_count of the entry of the first chunk
\* when the job was completed
NewJob(d, preview) ==
    [status |-> "pending", progress |-> 0, credits_used |-> 0, credits_saved |-> 0,
     error_message |-> None, started_at |-> FALSE, completed_at |-> FALSE,
     text_content |-> d, is_preview |-> preview, total_characters |-> DocLen(d),
     glossary |-> <<>>, runs |-> 0, after |-> {}, hits_done |-> 0]

\* the invocations of process_translation so far, for the jobs 1..n
RECURSIVE RunsUpTo(_)
RunsUpTo(n) == IF n = 0 THEN 0 ELSE translations[n].runs + RunsUpTo(n - 1)

\* the jobs there are: every document as a full job, the longest as a preview too
JobKinds ==
    {NewJob(d, FALSE) : d \in Docs} \cup {NewJob(<<TextLower, TextOther>>, TRUE)}

\* a caller invokes process_translation(translation_id, text_content)
process_translation_call(w, id) ==
    /\ pc[w] = "idle"
    /\ id \in JobIds => RunsUpTo(NJobs) < MaxRuns
    /\ loc' = [loc EXCEPT ![w] = [LocIdle EXCEPT !.job = id]]
    /\ translations' =
         IF id \in JobIds
         THEN [translations EXCEPT
                 ![id].runs = @ + 1,
                 ![id].after = {j \in JobIds : translations[j].status = "completed"}]
         ELSE translations
    /\ Goto(w, "pt_start")
    /\ UNCHANGED <<cacheVars, chunkRows, credits, progressStore, debited>>

\* lines 52-77: the query, status = PROCESSING and its commit (outside the
\* try), then the split
process_translation_start(w) ==
    /\ pc[w] = "pt_start"
    /\ LET id == loc[w].job
       IN  \/ /\ id \notin JobIds
              /\ loc' = [loc EXCEPT ![w].ret = [raised |-> "ValueError"]]
              /\ Goto(w, "pt_raised")
              /\ UNCHANGED <<translations, dbFaults>>
           \/ /\ id \in JobIds
              /\ dbFaults < MaxDbFaults
              /\ dbFaults' = dbFaults + 1
              /\ loc' = [loc EXCEPT ![w].ret = [raised |-> "DBError"]]
              /\ Goto(w, "pt_raised")
              /\ UNCHANGED translations
           \/ /\ id \in JobIds
              /\ translations' = [translations EXCEPT ![id].status = "processing",
                                                      ![id].started_at = TRUE]
              /\ loc' = [loc EXCEPT ![w].chunks =
                           split_text(translations[id].text_content,
                                      translations[id].is_preview)]
              /\ Goto(w, "pt_loop")
              /\ UNCHANGED dbFaults
    /\ UNCHANGED <<uniqueHash, served, durable, nextId, redis,
                   chunkRows, credits, progressStore, debited>>

\* lines 85-94: the for loop takes the next chunk and calls get_from_cache,
\* or ends
process_translation_next_chunk(w) ==
    /\ pc[w] = "pt_loop"
    /\ IF loc[w].idx < Len(loc[w].chunks)
       THEN /\ loc' = [loc EXCEPT ![w].text = loc[w].chunks[loc[w].idx + 1],
                                  ![w].queried = FALSE,
                                  ![w].ret = Unset,
                                  ![w].row = None]
            /\ Goto(w, "gc_redis")
       ELSE /\ Goto(w, "pt_complete")
            /\ UNCHANGED loc
    /\ UNCHANGED <<cacheVars, jobVars>>

\* lines 96-103: get_from_cache has returned; a hit is taken from the cache
process_translation_lookup_done(w) ==
    /\ pc[w] = "gc_ret"
    /\ loc[w].job # NoJob
    /\ IF loc[w].ret # None
       THEN /\ loc' = [loc EXCEPT ![w].tr = loc[w].ret.translated_text,
                                  ![w].from_cache = TRUE,
                                  ![w].cached_chars = @ + TextLen(loc[w].text)]
            /\ Goto(w, "pt_persist")
       ELSE /\ Goto(w, "pt_translate")
            /\ UNCHANGED loc
    /\ UNCHANGED <<cacheVars, jobVars>>

\* lines 77-104 of deepl_service.py: the text translate_text returns when
\* the provider answers: the glossary terms are protected, the provider
\* translates, the terms are restored
TranslatedUnder(x, glossary) ==
    IF glossary = <<>> THEN ProviderText(x)
    ELSE LET p == protect_glossary_terms(x.s, glossary)
         IN  [x EXCEPT !.s = restore_glossary_terms(ProviderText(Txt(p.text, 0)).s,
                                                    p.placeholders)]

\* DeepLService.translate_text as its caller sees it: "" for a blank text,
\* ValueError for an oversized one, else the provider's text or, after
\* retry_attempts failures, Exception
translate_text_outcomes(x, glossary) ==
    IF IsBlank(x) THEN {[ok |-> TRUE, value |-> EmptyText]}
    ELSE IF TextLen(x) > max_chars_per_request
    THEN {[ok |-> FALSE, value |-> [raised |-> "ValueError"]]}
    ELSE {[ok |-> TRUE, value |-> TranslatedUnder(x, glossary)],
          [ok |-> FALSE, value |-> [raised |-> "Exception"]]}

\* lines 104-118: the miss branch calls translate_text with the job's
\* glossary, then save_to_cache
process_translation_translate(w) ==
    /\ pc[w] = "pt_translate"
    /\ \E out \in translate_text_outcomes(loc[w].text,
                                            translations[loc[w].job].glossary) :
         IF out.ok
         THEN /\ loc' = [loc EXCEPT ![w].tr = out.value]
              /\ Goto(w, "sc_query")
         ELSE /\ loc' = [loc EXCEPT ![w].error = out.value]
              /\ Goto(w, "pt_except")
    /\ UNCHANGED <<cacheVars, jobVars>>

\* lines 112-123: save_to_cache has returned or raised (after its rollback)
process_translation_saved(w) ==
    /\ pc[w] \in {"sc_ret", "sc_raised"}
    /\ loc[w].job # NoJob
    /\ IF pc[w] = "sc_ret"
       THEN /\ loc' = [loc EXCEPT ![w].from_cache = FALSE,
                                  ![w].total_translated_chars = @ + TextLen(loc[w].text)]
            /\ Goto(w, "pt_persist")
       ELSE /\ loc' = [loc EXCEPT ![w].error = loc[w].ret]
            /\ Goto(w, "pt_except")
    /\ UNCHANGED <<cacheVars, jobVars>>

\* line 145: int((idx + 1) / total_chunks * 100)
ProgressOf(idx, total_chunks) == ((idx + 1) * 100) \div total_chunks

\* lines 128-137: the TranslationChunk of the chunk in hand
ChunkRow(w) ==
    [translation_id |-> loc[w].job,
     chunk_order |-> loc[w].idx,
     original_text |-> loc[w].text,
     translated_text |-> loc[w].tr,
     cache_id |-> IF loc[w].from_cache THEN loc[w].ret.cache_id ELSE loc[w].ret.id,
     from_cache |-> loc[w].from_cache,
     character_count |-> TextLen(loc[w].text)]

\* lines 195-208: _update_progress_redis, best effort
ProgressRecord(progress, cached_chars) ==
    [progress |-> progress, cached_chars |-> cached_chars]

\* an _update_progress_redis that lets the exception of setex through
update_progress_redis_propagates(up) == ~up

\* lines 197-208: whether _update_progress_redis raises when setex answers
\* (up) or raises (~up): the except of lines 207-208 logs a warning, no more
update_progress_redis_raises(up) == FALSE

\* lines 127-152: the chunk row, the progress, its Redis snapshot, the commit;
\* a commit that raises leaves the session unusable until a rollback
process_translation_persist(w) ==
    /\ pc[w] = "pt_persist"
    /\ LET id == loc[w].job
           progress == ProgressOf(loc[w].idx, Len(loc[w].chunks))
       IN  \E up \in BOOLEAN :
           /\ progressStore' =
                IF up
                THEN [progressStore EXCEPT
                        ![id] = ProgressRecord(progress, loc[w].cached_chars)]
                ELSE progressStore
           /\ \/ /\ update_progress_redis_raises(up)
                 /\ loc' = [loc EXCEPT ![w].error = [raised |-> "RedisError"]]
                 /\ Goto(w, "pt_except")
                 /\ UNCHANGED <<chunkRows, translations, dbFaults>>
              \/ /\ ~update_progress_redis_raises(up)
                 /\ chunkRows' = Append(chunkRows, ChunkRow(w))
                 /\ translations' = [translations EXCEPT ![id].progress = progress]
                 /\ loc' = [loc EXCEPT ![w].idx = @ + 1,
                                       ![w].text = EmptyText,
                                       ![w].tr = EmptyText,
                                       ![w].ret = Unset,
                                       ![w].row = None,
                                       ![w].queried = FALSE,
                                       ![w].from_cache = FALSE]
                 /\ Goto(w, "pt_loop")
                 /\ UNCHANGED dbFaults
              \/ /\ ~update_progress_redis_raises(up)
                 /\ dbFaults < MaxDbFaults
                 /\ dbFaults' = dbFaults + 1
                 /\ loc' = [loc EXCEPT ![w].error = [raised |-> "DBError"],
                                       ![w].session_ok = FALSE]
                 /\ Goto(w, "pt_except")
                 /\ UNCHANGED <<chunkRows, translations>>
    /\ UNCHANGED <<uniqueHash, served, durable, nextId, redis, credits, debited>>

\* a debit of the whole document, whatever the cache served
DebitWhole(credits_used, credits_saved) == credits_used + credits_saved

\* line 161: user.credits -= credits_used
Debit(credits_used, credits_saved) == credits_used

\* hit_count of the durable entry of a text, 0 when there is none
HitCountOf(x) ==
    LET rows == Existing(generate_cache_key(x, EN, PT))
    IN  IF rows = {} THEN 0 ELSE (CHOOSE r \in rows : TRUE).hit_count

\* the amount a job is debited: nothing for a preview
DebitAmount(w) ==
    IF translations[loc[w].job].is_preview
    THEN 0
    ELSE Debit(loc[w].total_translated_chars, loc[w].cached_chars)

\* lines 154-168: the totals; for a job that is not a preview, translation.user
\* is loaded and user.credits -= credits_used is computed on the value read
process_translation_totals(w) ==
    /\ pc[w] = "pt_complete"
    /\ loc' = [loc EXCEPT ![w].user_credits =
                 IF translations[loc[w].job].is_preview THEN 0 ELSE credits]
    /\ Goto(w, "pt_commit")
    /\ UNCHANGED <<cacheVars, jobVars>>

\* a commit that debits previews too
BalanceWrittenAlways(w) == loc[w].user_credits - DebitAmount(w) - loc[w].total_translated_chars

\* lines 159-161: the balance after the commit; a preview does not load the user
BalanceWritten(w) ==
    IF translations[loc[w].job].is_preview
    THEN credits
    ELSE loc[w].user_credits - DebitAmount(w)

\* lines 154-172: what the commit writes: the totals, status = COMPLETED,
\* and for a job that is not a preview the balance computed from the one read
process_translation_complete(w) ==
    /\ pc[w] = "pt_commit"
    /\ LET id == loc[w].job
           credits_used == loc[w].total_translated_chars
           credits_saved == loc[w].cached_chars
       IN  \/ /\ translations' =
                   [translations EXCEPT
                      ![id].credits_used = credits_used,
                      ![id].credits_saved = credits_saved,
                      ![id].status = "completed",
                      ![id].completed_at = TRUE,
                      ![id].progress = 100,
                      ![id].hits_done =
                          IF loc[w].chunks = <<>> THEN 0
                          ELSE HitCountOf(loc[w].chunks[1])]
              /\ credits' = BalanceWritten(w)
              /\ debited' = [debited EXCEPT ![id] = @ + DebitAmount(w)]
              /\ Goto(w, "pt_log")
              /\ UNCHANGED <<loc, dbFaults>>
           \/ /\ dbFaults < MaxDbFaults
              /\ dbFaults' = dbFaults + 1
              /\ loc' = [loc EXCEPT ![w].error = [raised |-> "DBError"],
                                    ![w].session_ok = FALSE]
              /\ Goto(w, "pt_except")
              /\ UNCHANGED <<translations, credits, debited>>
    /\ UNCHANGED <<uniqueHash, served, durable, nextId, redis, chunkRows, progressStore>>

\* lines 173-182: db.refresh(translation) reads the row back, the log line
\* divides by total_characters, then the return; both are inside the try and
\* after the commit of line 172.  A refresh that raises leaves the session
\* usable or not, as the driver has it
process_translation_log(w) ==
    /\ pc[w] = "pt_log"
    /\ \/ /\ dbFaults < MaxDbFaults
          /\ dbFaults' = dbFaults + 1
          /\ \E ok \in BOOLEAN :
               loc' = [loc EXCEPT ![w].error = [raised |-> "DBError"],
                                  ![w].session_ok = ok]
          /\ Goto(w, "pt_except")
       \/ /\ translations[loc[w].job].total_characters = 0
          /\ loc' = [loc EXCEPT ![w].error = [raised |-> "ZeroDivisionError"]]
          /\ Goto(w, "pt_except")
          /\ UNCHANGED dbFaults
       \/ /\ translations[loc[w].job].total_characters # 0
          /\ loc' = [loc EXCEPT ![w].ret = [returned |-> loc[w].job]]
          /\ Goto(w, "pt_ret")
          /\ UNCHANGED dbFaults
    /\ UNCHANGED <<uniqueHash, served, durable, nextId, redis, jobVars>>

\* lines 184-193: the handler sets FAILED and commits, with no rollback
\* before and no guard around the commit, then re-raises
process_translation_except(w) ==
    /\ pc[w] = "pt_except"
    /\ LET id == loc[w].job
       IN  \/ \* the session is unusable: the commit raises
              /\ ~ loc[w].session_ok
              /\ loc' = [loc EXCEPT ![w].ret = [raised |-> "PendingRollbackError"]]
              /\ UNCHANGED <<translations, dbFaults>>
           \/ \* the database fails again
              /\ loc[w].session_ok
              /\ dbFaults < MaxDbFaults
              /\ dbFaults' = dbFaults + 1
              /\ loc' = [loc EXCEPT ![w].ret = [raised |-> "DBError"]]
              /\ UNCHANGED translations
           \/ /\ loc[w].session_ok
              /\ translations' = [translations EXCEPT
                                    ![id].status = "failed",
                                    ![id].error_message = loc[w].error,
                                    ![id].completed_at = TRUE]
              /\ loc' = [loc EXCEPT ![w].ret = loc[w].error]
              /\ UNCHANGED dbFaults
    /\ Goto(w, "pt_raised")
    /\ UNCHANGED <<uniqueHash, served, durable, nextId, redis,
                   chunkRows, credits, progressStore, debited>>

\* the invocation has returned or raised
process_translation_return(w) ==
    /\ pc[w] \in {"pt_ret", "pt_raised"}
    /\ loc' = [loc EXCEPT ![w] = LocIdle]
    /\ Goto(w, "idle")
    /\ UNCHANGED <<cacheVars, jobVars>>

(***************************************************************************)
(* SpecJobSeq: one worker runs the jobs, one invocation after the other.   *)
(***************************************************************************)
InitJobs ==
    /\ LimiterOff
    /\ InitStores
    /\ pc = [w \in Workers |-> "idle"]
    /\ loc = [w \in Workers |-> LocIdle]
    /\ translations \in [JobIds -> JobKinds]
    /\ chunkRows = <<>>
    /\ credits = InitialCredits
    /\ progressStore = [id \in JobIds |-> None]
    /\ debited = [id \in JobIds |-> 0]

limVars == <<rateVars, retryVars>>

NextJobsOf(ws) ==
    \/ \E w \in ws :
         \/ \E id \in JobIds \cup {MissingId} :
              process_translation_call(w, id) /\ UNCHANGED limVars
         \/ process_translation_start(w) /\ UNCHANGED limVars
         \/ process_translation_next_chunk(w) /\ UNCHANGED limVars
         \/ get_from_cache_redis(w) /\ UNCHANGED <<limVars, jobVars>>
         \/ get_from_cache_query(w) /\ UNCHANGED <<limVars, jobVars>>
         \/ get_from_cache_commit(w) /\ UNCHANGED <<limVars, jobVars>>
         \/ get_from_cache_setex(w) /\ UNCHANGED <<limVars, jobVars>>
         \/ process_translation_lookup_done(w) /\ UNCHANGED limVars
         \/ process_translation_translate(w) /\ UNCHANGED limVars
         \/ save_to_cache_query(w) /\ UNCHANGED <<limVars, jobVars>>
         \/ save_to_cache_insert(w) /\ UNCHANGED <<limVars, jobVars>>
         \/ save_to_cache_setex(w) /\ UNCHANGED <<limVars, jobVars>>
         \/ process_translation_saved(w) /\ UNCHANGED limVars
         \/ process_translation_persist(w) /\ UNCHANGED limVars
         \/ process_translation_totals(w) /\ UNCHANGED limVars
         \/ process_translation_complete(w) /\ UNCHANGED limVars
         \/ process_translation_log(w) /\ UNCHANGED limVars
         \/ process_translation_except(w) /\ UNCHANGED limVars
         \/ process_translation_return(w) /\ UNCHANGED limVars
    \/ \E k \in CacheKeys :
         \* seen by the next read only: taken when a worker is about to read
         /\ \E w \in ws : pc[w] = "gc_redis"
         /\ redis_ttl_expire(k)
         /\ UNCHANGED <<limVars, jobVars>>

NextJobSeq == NextJobsOf({1})

SpecJobSeq == InitJobs /\ [][NextJobSeq]_vars

(***************************************************************************)
(* SpecJobs: two workers run invocations concurrently, each with a session *)
(* of its own, on jobs of one owner.  The runs taken are those in which    *)
(* the database does not fail and Redis is unavailable throughout.         *)
(***************************************************************************)
ConcurrentJobKinds == {NewJob(<<TextLower, TextOther>>, FALSE)}

InitJobsConcurrent ==
    /\ LimiterOff
    /\ uniqueHash \in BOOLEAN
    /\ durable = {}
    /\ nextId = 1
    /\ redis = [k \in CacheKeys |-> None]
    /\ dbFaults = MaxDbFaults
    /\ served = {}
    /\ pc = [w \in Workers |-> "idle"]
    /\ loc = [w \in Workers |-> LocIdle]
    /\ translations \in [JobIds -> ConcurrentJobKinds]
    /\ chunkRows = <<>>
    /\ credits = InitialCredits
    /\ progressStore = [id \in JobIds |-> None]
    /\ debited = [id \in JobIds |-> 0]

NextJobs ==
    \E w \in Workers :
       \/ \E id \in JobIds \cup {MissingId} :
            process_translation_call(w, id) /\ UNCHANGED limVars
       \/ process_translation_start(w) /\ UNCHANGED limVars
       \/ process_translation_next_chunk(w) /\ UNCHANGED limVars
       \/ get_from_cache_redis(w) /\ RedisUnavailable /\ UNCHANGED <<limVars, jobVars>>
       \/ get_from_cache_query(w) /\ UNCHANGED <<limVars, jobVars>>
       \/ get_from_cache_commit(w) /\ UNCHANGED <<limVars, jobVars>>
       \/ get_from_cache_setex(w) /\ RedisUnavailable /\ UNCHANGED <<limVars, jobVars>>
       \/ process_translation_lookup_done(w) /\ UNCHANGED limVars
       \/ process_translation_translate(w) /\ UNCHANGED limVars
       \/ save_to_cache_query(w) /\ UNCHANGED <<limVars, jobVars>>
       \/ save_to_cache_insert(w) /\ UNCHANGED <<limVars, jobVars>>
       \/ save_to_cache_setex(w) /\ RedisUnavailable /\ UNCHANGED <<limVars, jobVars>>
       \/ process_translation_saved(w) /\ UNCHANGED limVars
       \/ process_translation_persist(w) /\ UNCHANGED limVars
       \/ process_translation_totals(w) /\ UNCHANGED limVars
       \/ process_translation_complete(w) /\ UNCHANGED limVars
       \/ process_translation_log(w) /\ UNCHANGED limVars
       \/ process_translation_except(w) /\ UNCHANGED limVars
       \/ process_translation_return(w) /\ UNCHANGED limVars

SpecJobs == InitJobsConcurrent /\ [][NextJobs]_vars

(***************************************************************************)
(* Properties of process_translation                                       *)
(***************************************************************************)
Job(id) == translations[id]

\* the chunk rows of a job
RowsOf(id) == {n \in 1..Len(chunkRows) : chunkRows[n].translation_id = id}

\* job j ran once, after job i had run once and was completed, on the same
\* single-chunk text, and the database never failed
RanAfterOnSameText(i, j) ==
    /\ i # j
    /\ Len(Job(i).text_content) = 1
    /\ Job(j).text_content = Job(i).text_content
    /\ Job(i).runs = 1
    /\ Job(j).runs = 1
    /\ Job(i).status = "completed"
    /\ Job(j).status = "completed"
    /\ i \in Job(j).after
    /\ dbFaults = 0

\* the second job took its chunk from the cache and was billed nothing
SecondJobBilledNothing(j) ==
    /\ \A n \in RowsOf(j) : chunkRows[n].from_cache
    /\ Job(j).credits_used = 0
    /\ Job(j).credits_saved = TextLen(Job(j).text_content[1])

\* C1: when two jobs translate the same single-chunk text one after the
\* other, the second job's chunk has from_cache = true, the second job bills
\* zero characters and saves the chunk's length, and the durable entry's
\* hit_count after the second job is one above its value after the first.
C1_SecondJobCountsHit ==
    \A i, j \in JobIds :
       RanAfterOnSameText(i, j) =>
          /\ SecondJobBilledNothing(j)
          /\ Job(j).hits_done = Job(i).hits_done + 1

\* C4: for every non-preview job that is completed, credits_used plus
\* credits_saved is total_characters, and what the job has taken from its
\* owner's balance is credits_used.
C4_CreditConservation ==
    \A id \in JobIds :
       (Job(id).status = "completed" /\ ~ Job(id).is_preview) =>
          /\ Job(id).credits_used + Job(id).credits_saved = Job(id).total_characters
          /\ debited[id] = Job(id).credits_used

\* C5: completed and failed are absorbing: no step changes the status of a
\* job that is completed or failed.
C5_TerminalAbsorbing ==
    [][\A id \in JobIds :
         Job(id).status \in {"completed", "failed"} =>
            translations'[id].status = Job(id).status]_vars

\* the invocation of w has raised out of the handler, for an exception raised
\* while a chunk was being processed
RaisedInChunk(w) ==
    /\ pc[w] = "pt_raised"
    /\ loc[w].error # None
    /\ loc[w].idx < Len(loc[w].chunks)

\* C6: when a step raises while chunk k is processed, the job ends failed
\* with the error message and the completion timestamp recorded, and the
\* chunk rows of this job are those of chunks before k (none for k or later).
C6_ChunkErrorFailsJob ==
    \A w \in Workers :
       RaisedInChunk(w) =>
          /\ Job(loc[w].job).status = "failed"
          /\ Job(loc[w].job).error_message = loc[w].error
          /\ Job(loc[w].job).completed_at

(***************************************************************************)
(* Properties of the durable-tier lookup                                   *)
(***************************************************************************)
\* the row a lookup has read comes out of its UPDATE counted once more and
\* used now
CountedOnce(w) ==
    \E cur \in RowById(loc[w].row.id) :
       [cur EXCEPT !.hit_count = @ + 1, !.last_used = "new"] \in durable'

\* the record of the row in hand is under the key of the lookup, with the TTL
WrittenToRedis(w) ==
    redis'[KeyOf(w)] =
       RedisRecord(loc[w].row.translated_text, loc[w].row.id, loc[w].row.hit_count)

\* the lookup returns the row in hand, as a durable hit
ReturnsDurable(w) ==
    /\ loc'[w].ret.translated_text = loc[w].row.translated_text
    /\ loc'[w].ret.cache_id = loc[w].row.id
    /\ ~ loc'[w].ret.from_redis

NextCacheDown ==
    \E w \in {1} :
       \/ \E x \in Texts : client_get_from_cache(w, x) /\ UNCHANGED limiterVars
       \/ \E x \in Texts, translated \in Translations :
            client_save_to_cache(w, x, translated) /\ UNCHANGED limiterVars
       \/ client_clear_old_cache(w) /\ UNCHANGED limiterVars
       \/ client_return(w) /\ UNCHANGED limiterVars
       \/ get_from_cache_redis(w) /\ RedisUnavailable /\ UNCHANGED limiterVars
       \/ get_from_cache_query(w) /\ UNCHANGED limiterVars
       \/ get_from_cache_commit(w) /\ UNCHANGED limiterVars
       \/ get_from_cache_setex(w) /\ RedisUnavailable /\ UNCHANGED limiterVars
       \/ save_to_cache_query(w) /\ UNCHANGED limiterVars
       \/ save_to_cache_insert(w) /\ UNCHANGED limiterVars
       \/ save_to_cache_setex(w) /\ RedisUnavailable /\ UNCHANGED limiterVars
       \/ clear_old_cache_query(w) /\ UNCHANGED limiterVars
       \/ clear_old_cache_redis(w) /\ RedisUnavailable /\ UNCHANGED limiterVars
       \/ clear_old_cache_delete(w) /\ UNCHANGED limiterVars
       \/ time_passes /\ UNCHANGED limiterVars
       \/ age_out /\ UNCHANGED limiterVars

SpecCacheDown == InitCache /\ [][NextCacheDown]_vars

\* C12: with the volatile tier unavailable, get_from_cache goes on to the
\* durable tier and returns what that tier alone gives: the entry of the key
\* when there is one (not-found only when the durable query itself fails),
\* not-found when there is none, and it never raises; save_to_cache still
\* inserts the durable entry and returns it.
C12_RedisDownDurableOnly ==
    [][\A w \in Workers :
         /\ pc[w] = "gc_redis" /\ pc'[w] # pc[w] => pc'[w] = "gc_query"
         /\ (pc[w] = "gc_query" /\ pc'[w] = "gc_ret") =>
               /\ loc'[w].ret = None
               /\ dbFaults' = dbFaults => Existing(KeyOf(w)) = {}
         /\ (pc[w] = "gc_query" /\ pc'[w] = "gc_commit") =>
               loc'[w].row \in Existing(KeyOf(w))
         /\ (pc[w] = "gc_commit" /\ pc'[w] # pc[w]) => pc'[w] = "gc_setex"
         /\ (pc[w] = "gc_setex" /\ pc'[w] = "gc_ret") =>
               /\ ReturnsDurable(w)
               /\ loc[w].row \in Existing(KeyOf(w))
         /\ (pc[w] = "sc_insert" /\ pc'[w] = "sc_setex") =>
               /\ Existing(KeyOf(w)) = {}
               /\ NewRow(w) \in durable'
         /\ (pc[w] = "sc_setex" /\ pc'[w] # pc[w]) =>
               /\ pc'[w] = "sc_ret"
               /\ loc'[w].ret \in durable'
               /\ loc'[w].ret.text_hash = KeyOf(w)]_vars

\* with Redis unavailable a lookup has returned the durable entry that an
\* earlier save inserted
C12_Witness ==
    /\ \A k \in CacheKeys : redis[k] = None
    /\ \E w \in Workers :
         /\ pc[w] = "gc_ret"
         /\ loc[w].ret # None
         /\ \E r \in Existing(KeyOf(w)) :
              r.id = loc[w].ret.cache_id /\ r.hit_count > 0

(***************************************************************************)
(* Properties of clear_old_cache and of hit_count                          *)
(***************************************************************************)
\* the rows a step removes
Removed == {r \in durable : ~ \E q \in durable' : q.id = r.id}

\* a clear_old_cache removes exactly the rows that are old and never counted
RemovesOldUncounted(w) ==
    /\ \A r \in Removed : r.last_used = "old" /\ r.hit_count = 0
    /\ dbFaults' = dbFaults =>
          \A r \in durable : (r.last_used = "old" /\ r.hit_count = 0) => r \in Removed

\* C13: clear_old_cache removes an entry if and only if its last_used is older
\* than the cutoff and its hit_count is zero, and it never removes an entry
\* that a lookup has returned, whichever tier served that lookup.
C13_ClearSparesReused ==
    [][\A w \in Workers :
         (pc[w] = "cc_delete" /\ pc'[w] = "cc_ret") =>
            /\ RemovesOldUncounted(w)
            /\ \A r \in Removed : r.id \notin served]_vars

\* C14: the hit_count of a cache entry never decreases, whatever lookups,
\* stores and evictions do, concurrent lookups of one key included.
C14_HitCountMonotone ==
    [][\A r \in durable : \A q \in durable' :
         q.id = r.id => q.hit_count >= r.hit_count]_vars

(***************************************************************************)
(* Properties of the debit                                                 *)
(***************************************************************************)
\* credits_used of the jobs 1..n that are not previews, summed
RECURSIVE CreditsUsedUpTo(_)
CreditsUsedUpTo(n) ==
    IF n = 0 THEN 0
    ELSE (IF translations[n].is_preview THEN 0 ELSE translations[n].credits_used)
         + CreditsUsedUpTo(n - 1)

\* every job has been invoked once and is completed
AllCompletedOnce ==
    \A id \in JobIds : Job(id).runs = 1 /\ Job(id).status = "completed"

C16_PreviewNeverDebits ==
    /\ [](\A id \in JobIds : Job(id).is_preview => debited[id] = 0)
    /\ [][\A w \in Workers :
            (loc[w].job \in JobIds /\ Job(loc[w].job).is_preview /\ pc'[w] # pc[w])
               => credits' = credits]_vars

\* a preview whose chunk went to the provider is completed, with nothing debited
C16_Witness ==
    \E id \in JobIds :
       /\ Job(id).is_preview
       /\ Job(id).status = "completed"
       /\ Job(id).credits_used > 0
       /\ debited[id] = 0

\* C17: while a job's status is processing, its persisted progress never
\* decreases from one step to the next, and stays within 0..100.
C17_ProgressMonotone ==
    [][\A id \in JobIds :
          (Job(id).status = "processing" /\ Job(id)'.status = "processing")
             => /\ Job(id)'.progress >= Job(id).progress
                /\ Job(id)'.progress \in 0..100]_vars

(***************************************************************************)
(* SpecJobFair: SpecJobSeq with the scheduling of a running invocation     *)
(* made explicit: the interpreter runs process_translation statement after *)
(* statement, and every call to the provider or to a store returns or      *)
(* raises, so an invocation that has begun keeps taking steps until it     *)
(* returns.  Nothing obliges a caller to invoke again.                     *)
(***************************************************************************)
InvocationStep(w) == NextJobSeq /\ pc[w] # "idle"

SpecJobFair == InitJobs /\ [][NextJobSeq]_vars /\ WF_vars(InvocationStep(1))

\* C18: a job whose status is processing eventually has status completed or
\* failed.
C18_EventuallyTerminal ==
    \A id \in JobIds :
       (Job(id).status = "processing") ~> (Job(id).status \in {"completed", "failed"})

\* the chunks the splitter produces for a job
ChunksOf(id) == split_text(Job(id).text_content, Job(id).is_preview)

\* chunk n (from 0) of a job has a persisted row with a translated text
ChunkPersisted(id, n) ==
    \E k \in RowsOf(id) :
       /\ chunkRows[k].chunk_order = n
       /\ chunkRows[k].original_text = ChunksOf(id)[n + 1]
       /\ chunkRows[k].translated_text # EmptyText

\* C19: whenever a job's status is completed, its progress is 100, its
\* completion timestamp is set, credits_used and credits_saved are set (they
\* account for every character of the chunks), and every chunk the splitter
\* produced has a persisted chunk row with a translated text.
C19_CompletedIsWhole ==
    \A id \in JobIds :
       Job(id).status = "completed" =>
          /\ Job(id).progress = 100
          /\ Job(id).completed_at
          /\ Job(id).credits_used + Job(id).credits_saved = DocLen(ChunksOf(id))
          /\ \A n \in 0..(Len(ChunksOf(id)) - 1) : ChunkPersisted(id, n)

\* a job that ran once while every setex of the progress store raised
ProgressStoreDown(id) == Job(id).runs = 1 /\ progressStore[id] = None

\* C20: a failure of the progress store never changes the outcome of a job.
\* A chunk step ends in the handler only when the database commit raised, and
\* otherwise persists the chunk row and the progress whether or not the
\* progress store took the write; no job fails with the store's error; a job
\* completed while every setex raised has all its chunk rows, its totals and
\* its debit, as a job completed with the store working has.
C20_ProgressStoreBestEffort ==
    /\ [][\A w \in Workers :
            (pc[w] = "pt_persist" /\ pc'[w] # "pt_persist") =>
               \/ /\ pc'[w] = "pt_loop"
                  /\ chunkRows' = Append(chunkRows, ChunkRow(w))
                  /\ Job(loc[w].job)'.progress =
                        ProgressOf(loc[w].idx, Len(loc[w].chunks))
                  /\ UNCHANGED <<dbFaults, credits, debited>>
               \/ /\ pc'[w] = "pt_except"
                  /\ dbFaults' = dbFaults + 1
                  /\ loc'[w].error = [raised |-> "DBError"]]_vars
    /\ [](\A id \in JobIds :
            /\ Job(id).error_message # [raised |-> "RedisError"]
            /\ (Job(id).status = "completed" /\ Job(id).runs = 1) =>
                  /\ \A n \in 0..(Len(ChunksOf(id)) - 1) : ChunkPersisted(id, n)
                  /\ Job(id).credits_used + Job(id).credits_saved = DocLen(ChunksOf(id))
                  /\ debited[id] = IF Job(id).is_preview THEN 0 ELSE Job(id).credits_used)

\* a two-chunk job is completed, translated by the provider and debited, while
\* the progress store never took a write
C20_Witness ==
    \E id \in JobIds :
       /\ ProgressStoreDown(id)
       /\ Job(id).status = "completed"
       /\ ~ Job(id).is_preview
       /\ Len(ChunksOf(id)) = 2
       /\ Job(id).credits_used > 0
       /\ debited[id] = Job(id).credits_used

(***************************************************************************)
(* The limiter's waiting callers (SpecRate).                                *)
(***************************************************************************)
\* members of the sorted set with a score inside the last second
RegisteredInWindow ==
    SumTo(zset, Cardinality(DOMAIN zset) - 1) - SumTo(zset, now - WindowTicks)

\* the caller found the window full at line 35 and has not counted again
FoundFull(c) == rl[c].pc = "sleep"

\* C21: a caller of _check_rate_limit that found the window full is not
\* admitted while the window is still full: its next step is its re-check.
C21_WaitsWhileFull ==
    [][\A c \in Callers :
          (FoundFull(c) /\ RegisteredInWindow >= max_requests_per_second)
             => rl'[c].pc \in {"sleep", "count"}]_vars

(***************************************************************************)
(* SpecKey: generate_cache_key applied to two texts and two language       *)
(* pairs.  pc and loc hold the one caller's position and its locals.       *)
(***************************************************************************)
\* the longest text of SpecKey
KeyMaxLen == 4

KeyAlphabet == {"a", "A", " "}

RECURSIVE SeqsUpTo(_, _)
\* the sequences over S of length n or less
SeqsUpTo(S, n) ==
    IF n = 0 THEN {<<>>}
    ELSE LET shorter == SeqsUpTo(S, n - 1)
         IN  shorter \cup {Append(q, c) : q \in {r \in shorter : Len(r) = n - 1}, c \in S}

KeyTexts == {Txt(q, 0) : q \in SeqsUpTo(KeyAlphabet, KeyMaxLen)}

Langs == {EN, PT}

\* the stores, the limiter and the jobs are not part of a specification of a
\* pure function
StoresOff ==
    /\ uniqueHash = TRUE
    /\ durable = {}
    /\ nextId = 1
    /\ redis = <<>>
    /\ dbFaults = 0
    /\ served = {}

pureOffVars == <<rateVars, retryVars, cacheVars, jobVars>>

InitKey ==
    /\ LimiterOff
    /\ StoresOff
    /\ JobsOff
    /\ pc = <<"key_first">>
    /\ \E x \in KeyTexts, y \in KeyTexts, s2 \in Langs, t2 \in Langs :
          loc = << [text1 |-> x, source1 |-> EN, target1 |-> PT, key1 |-> Unset,
                    text2 |-> y, source2 |-> s2, target2 |-> t2, key2 |-> Unset] >>

\* key1 = generate_cache_key(text1, source1, target1)
key_first ==
    /\ pc[1] = "key_first"
    /\ loc' = [loc EXCEPT ![1].key1 =
                 generate_cache_key(loc[1].text1, loc[1].source1, loc[1].target1)]
    /\ pc' = <<"key_second">>
    /\ UNCHANGED pureOffVars

\* key2 = generate_cache_key(text2, source2, target2)
key_second ==
    /\ pc[1] = "key_second"
    /\ loc' = [loc EXCEPT ![1].key2 =
                 generate_cache_key(loc[1].text2, loc[1].source2, loc[1].target2)]
    /\ pc' = <<"key_done">>
    /\ UNCHANGED pureOffVars

NextKey == key_first \/ key_second

SpecKey == InitKey /\ [][NextKey]_vars

\* the first whitespace of s at or after i, Len(s) + 1 when there is none
RECURSIVE NextSpace(_, _)
NextSpace(s, i) ==
    IF i > Len(s) \/ IsSpace(s[i]) THEN i ELSE NextSpace(s, i + 1)

\* the words of a text: its maximal runs of non-whitespace, in order
RECURSIVE WordsOf(_)
WordsOf(s) ==
    IF s = <<>> THEN <<>>
    ELSE IF IsSpace(Head(s)) THEN WordsOf(Tail(s))
    ELSE LET n == NextSpace(s, 1)
         IN  <<SubSeq(s, 1, n - 1)>> \o WordsOf(SubSeq(s, n, Len(s)))

\* the same letter, in either case
SameLetter(c, d) == c = d \/ {c, d} \in {{"a", "A"}, {"b", "B"}}

\* the texts differ at most in letter case, in leading or trailing whitespace
\* and in the length of the whitespace runs between their words
DifferInCaseOrSpacing(x, y) ==
    LET a == WordsOf(x.s)
        b == WordsOf(y.s)
    IN  /\ Len(a) = Len(b)
        /\ \A i \in 1..Len(a) :
              /\ Len(a[i]) = Len(b[i])
              /\ \A j \in 1..Len(a[i]) : SameLetter(a[i][j], b[i][j])

KeyDone == pc = <<"key_done">>

\* C22: generate_cache_key is deterministic; texts that differ only in letter
\* case, in leading or trailing whitespace or in the length of internal
\* whitespace runs get the same key for the same language pair; the same text
\* with a different source or target language gets a different key.
C22_KeyNormalizes ==
    KeyDone =>
       LET l == loc[1]
           same_pair == l.source1 = l.source2 /\ l.target1 = l.target2
       IN  /\ (l.text1 = l.text2 /\ same_pair) => l.key1 = l.key2
           /\ (DifferInCaseOrSpacing(l.text1, l.text2) /\ same_pair) => l.key1 = l.key2
           /\ (l.text1 = l.text2 /\ ~same_pair) => l.key1 # l.key2

\* "A  a" and " a A" for the same pair get one key
C22_Witness ==
    /\ KeyDone
    /\ loc[1].text1 = Txt(<<"A", " ", " ", "a">>, 0)
    /\ loc[1].text2 = Txt(<<" ", "a", " ", "A">>, 0)
    /\ loc[1].source2 = EN /\ loc[1].target2 = PT
    /\ loc[1].key1 = loc[1].key2

(***************************************************************************)
(* SpecGlossary: translate_text called with a glossary (lines 77-119), and *)
(* the two functions applied one after the other to the same text.         *)
(***************************************************************************)
\* the longest text and the longest glossary term
GlossaryMaxLen == 3
MaxTermLen == 2

\* two letters and one character that also occurs in the literal of line 130
GlossaryAlphabet == {"a", "b", "M"}

GlossaryTexts == SeqsUpTo(GlossaryAlphabet, GlossaryMaxLen)

GlossaryTerms == SeqsUpTo(GlossaryAlphabet, MaxTermLen) \ {<<>>}

\* what the provider must render a term as: the term itself, or a fixed word
GlossaryEntries ==
    {[term |-> t, value |-> v] : t \in GlossaryTerms, v \in {<<"x">>}} \cup
    {[term |-> t, value |-> t] : t \in GlossaryTerms}

\* a glossary of eleven terms that are kept as they are
BigGlossary ==
    LET terms == << <<"a", "a">>, <<"a", "b">>, <<"b", "a">>, <<"b", "b">>,
                    <<"a", "M">>, <<"M", "a">>, <<"b", "M">>, <<"M", "b">>,
                    <<"M", "M">>, <<"a">>, <<"b">> >>
    IN  [i \in 1..Len(terms) |-> [term |-> terms[i], value |-> terms[i]]]

\* the dicts with no entry, with one and with two, and the large one
Glossaries ==
    {<<>>, BigGlossary}
      \cup {<<e>> : e \in GlossaryEntries}
      \cup {<<ef[1], ef[2]>> :
               ef \in {p \in GlossaryEntries \X GlossaryEntries : p[1].term # p[2].term}}

InitGlossary ==
    /\ LimiterOff
    /\ StoresOff
    /\ JobsOff
    /\ pc = <<"gl_start">>
    /\ \E x \in GlossaryTexts, g \in Glossaries :
          loc = << [text |-> x, glossary |-> g, protected |-> Unset,
                    original_terms |-> Unset, restored |-> Unset,
                    attempt |-> 0, handed |-> <<>>, result |-> Unset] >>

\* restore_glossary_terms(protect_glossary_terms(text, glossary))
glossary_round_trip ==
    /\ pc[1] = "gl_start"
    /\ LET p == protect_glossary_terms(loc[1].text, loc[1].glossary)
       IN  loc' = [loc EXCEPT ![1].protected = p.text,
                              ![1].original_terms = p.placeholders,
                              ![1].restored =
                                 restore_glossary_terms(p.text, p.placeholders)]
    /\ pc' = <<"gl_law">>
    /\ UNCHANGED pureOffVars

\* lines 67-80: the empty short-circuit, then the glossary is applied
translate_text_protect ==
    /\ pc[1] = "gl_start"
    /\ IF loc[1].text = <<>>
       THEN /\ loc' = [loc EXCEPT ![1].result = <<>>]
            /\ pc' = <<"gl_done">>
       ELSE /\ LET p == IF loc[1].glossary # <<>>
                        THEN protect_glossary_terms(loc[1].text, loc[1].glossary)
                        ELSE [text |-> loc[1].text, placeholders |-> <<>>]
               IN  loc' = [loc EXCEPT ![1].protected = p.text,
                                      ![1].original_terms = p.placeholders]
            /\ pc' = <<"gl_attempt">>
    /\ UNCHANGED pureOffVars

\* result.text of the provider for a request string
ProviderString(x) == <<"T">> \o x

\* lines 83-119: one attempt: the provider gets the text; it answers, and the
\* terms are restored, or it raises DeepLException
translate_text_attempt ==
    /\ pc[1] = "gl_attempt"
    /\ LET handed == Append(loc[1].handed, loc[1].protected)
       IN  \/ /\ loc' = [loc EXCEPT
                           ![1].handed = handed,
                           ![1].result =
                              IF loc[1].original_terms # <<>>
                              THEN restore_glossary_terms(
                                      ProviderString(loc[1].protected),
                                      loc[1].original_terms)
                              ELSE ProviderString(loc[1].protected)]
              /\ pc' = <<"gl_done">>
           \/ /\ MayRetry(loc[1].attempt)
              /\ loc' = [loc EXCEPT ![1].handed = handed, ![1].attempt = @ + 1]
              /\ UNCHANGED pc
           \/ /\ ~ MayRetry(loc[1].attempt)
              /\ loc' = [loc EXCEPT ![1].handed = handed,
                                    ![1].result = [raised |-> "Exception"]]
              /\ pc' = <<"gl_raised">>
    /\ UNCHANGED pureOffVars

NextGlossary ==
    \/ glossary_round_trip
    \/ translate_text_protect
    \/ translate_text_attempt

SpecGlossary == InitGlossary /\ [][NextGlossary]_vars

\* the terms of a glossary
TermsOf(glossary) == {glossary[i].term : i \in 1..Len(glossary)}

\* no placeholder the protect step can hand out occurs in the text
NoPlaceholderIn(text, glossary) ==
    \A idx \in 0..(Len(glossary) - 1) : ~ Contains(text, Placeholder(idx))

LawDone == pc = <<"gl_law">>

\* C23: for a text in which no placeholder occurs, restoring the protected
\* text with the map of the protect step gives the original text back.
C23_RoundTrip ==
    (LawDone /\ NoPlaceholderIn(loc[1].text, loc[1].glossary))
       => loc[1].restored = loc[1].text

\* C24: whenever translate_text is called with a glossary, the text handed to
\* the provider on every attempt contains no occurrence of a glossary term.
C24_ProviderSeesNoTerm ==
    \A n \in 1..Len(loc[1].handed) :
       \A term \in TermsOf(loc[1].glossary) : ~ Contains(loc[1].handed[n], term)

\* the placeholders of a map that start at position i of s
StartingAt(s, placeholders, i) ==
    {k \in 1..Len(placeholders) : StartsAt(s, placeholders[k].placeholder, i)}

\* the first position of s at which a placeholder of the map starts, 0 if none
FirstPlaceholder(s, placeholders) ==
    IF \E i \in 1..Len(s) : StartingAt(s, placeholders, i) # {}
    THEN CHOOSE i \in 1..Len(s) :
            /\ StartingAt(s, placeholders, i) # {}
            /\ \A j \in 1..(i - 1) : StartingAt(s, placeholders, j) = {}
    ELSE 0

RECURSIVE RestoreExact(_, _)
\* s with every placeholder occurrence, read as the whole token, replaced by
\* the value recorded for that placeholder
RestoreExact(s, placeholders) ==
    LET i == FirstPlaceholder(s, placeholders)
    IN  IF i = 0 THEN s
        ELSE LET ks == StartingAt(s, placeholders, i)
                 k == CHOOSE m \in ks :
                         \A o \in ks : Len(placeholders[o].placeholder)
                                          <= Len(placeholders[m].placeholder)
             IN  SubSeq(s, 1, i - 1) \o placeholders[k].value
                   \o RestoreExact(
                        SubSeq(s, i + Len(placeholders[k].placeholder), Len(s)),
                        placeholders)

\* C25: every protected term has a placeholder of its own, and restoration
\* replaces every placeholder occurrence by the value recorded for exactly
\* that placeholder, for a glossary of any size.
C25_RestoreExactly ==
    LawDone =>
       LET m == loc[1].original_terms
       IN  /\ \A j, k \in 1..Len(m) : j # k => m[j].placeholder # m[k].placeholder
           /\ loc[1].restored = RestoreExact(loc[1].protected, m)

\* position (from 0) of a term in sorted_terms
IndexOf(glossary, term) ==
    (CHOOSE i \in 1..Len(glossary) : SortedTerms(glossary)[i] = term) - 1

\* sub occurs in s, and s is longer
ProperSubstring(sub, s) == Len(sub) < Len(s) /\ Contains(s, sub)

\* C26: when a glossary term is a proper substring of another and the text
\* contains the longer term, the protected text has the longer term's
\* placeholder where the longer term stood.
C26_LongerFirst ==
    LawDone =>
       \A long \in TermsOf(loc[1].glossary), short \in TermsOf(loc[1].glossary) :
          (/\ ProperSubstring(short, long)
           /\ IndexOf(loc[1].glossary, long) = 0
           /\ Contains(loc[1].text, long))
             => Contains(loc[1].protected, Placeholder(0))

(***************************************************************************)
(* translate_text: the two checks before the retry loop (SpecRetry).       *)
(***************************************************************************)
\* the text is empty or made of whitespace only
WhitespaceOnly(x) == x.pad = 0 /\ \A i \in 1..Len(x.s) : x.s[i] = " "

\* the invocation has neither called the provider nor slept nor entered
\* _check_rate_limit
NothingDone ==
    /\ tt.calls = 0
    /\ tt.callAt = <<>>
    /\ tt.waits = <<>>
    /\ rl[TT].pc = "idle"
    /\ TotalAdmitted = 0
    /\ limiterFault = 0

\* the limiter's window and the clock are as they were
WindowUntouched == zset' = zset /\ now' = now

\* C27: translate_text called with an empty or whitespace-only text returns
\* the empty string without calling the provider and without registering a
\* request in the limiter's window.
C27_BlankShortCircuit ==
    /\ [](WhitespaceOnly(tt.text) =>
            /\ NothingDone
            /\ tt.pc \in {"start", "done"}
            /\ tt.pc = "done" => tt.result = EmptyText)
    /\ [][WhitespaceOnly(tt.text) => WindowUntouched]_vars

C27_Witness ==
    /\ tt.text = Txt(<<" ">>, 0)
    /\ tt.pc = "done"
    /\ tt.result = EmptyText
    /\ BagCard(zset) > 0

\* C28 as stated: translate_text called with a text longer than
\* max_chars_per_request raises a validation error, with no provider call, no
\* retry wait and no request registered in the limiter's window.
C28_OversizeRaisesAsStated ==
    /\ [](TextLen(tt.text) > max_chars_per_request =>
            /\ NothingDone
            /\ tt.pc \in {"start", "raised"}
            /\ tt.pc = "raised" => tt.error = <<"ValueError", 0>>)
    /\ [][TextLen(tt.text) > max_chars_per_request => WindowUntouched]_vars

\* C28: translate_text called with a text that is longer than
\* max_chars_per_request and not made of whitespace only raises a validation
\* error, with no provider call, no retry wait and no request registered in
\* the limiter's window; a text of whitespace only, however long, is answered
\* with the empty string.
C28_OversizeRaises ==
    /\ [](TextLen(tt.text) > max_chars_per_request =>
            /\ NothingDone
            /\ IF WhitespaceOnly(tt.text)
               THEN /\ tt.pc \in {"start", "done"}
                    /\ tt.pc = "done" => tt.result = EmptyText
               ELSE /\ tt.pc \in {"start", "raised"}
                    /\ tt.pc = "raised" =>
                          tt.error = <<"ValueError", 0>> /\ tt.result = Unset)
    /\ [][TextLen(tt.text) > max_chars_per_request => WindowUntouched]_vars

C28_Witness ==
    /\ tt.text = Txt(<<"a">>, max_chars_per_request)
    /\ tt.pc = "raised"
    /\ tt.error = <<"ValueError", 0>>
    /\ tt.calls = 0

(***************************************************************************)
(* SpecProgress: callers of get_translation_progress, for the ids of the   *)
(* jobs and for an id without a row, and of process_translation for the    *)
(* latter.  A snapshot outlives its job's row for up to an hour (setex     *)
(* 3600), so the store may hold one for an id whose row is gone.           *)
(***************************************************************************)
ProgressIds == JobIds \cup {MissingId}

\* the rows the callers find: jobs not yet run, run halfway, completed, failed
ProgressJobs ==
    LET j == NewJob(<<TextLower, TextOther>>, FALSE)
    IN  { j,
          [j EXCEPT !.status = "processing", !.progress = 50, !.started_at = TRUE,
                    !.runs = 1],
          [j EXCEPT !.status = "completed", !.progress = 100, !.started_at = TRUE,
                    !.completed_at = TRUE, !.credits_used = 2, !.runs = 1],
          [j EXCEPT !.status = "failed", !.progress = 50, !.started_at = TRUE,
                    !.completed_at = TRUE, !.error_message = [raised |-> "Exception"],
                    !.runs = 1] }

InitProgress ==
    /\ LimiterOff
    /\ InitStores
    /\ pc = [w \in Workers |-> "idle"]
    /\ loc = [w \in Workers |-> LocIdle]
    /\ translations \in [JobIds -> ProgressJobs]
    /\ chunkRows = <<>>
    /\ credits = InitialCredits
    /\ progressStore \in [ProgressIds -> {None, ProgressRecord(50, 0)}]
    /\ debited = [id \in JobIds |-> 0]

\* a caller invokes get_translation_progress(translation_id)
get_translation_progress_call(w, id) ==
    /\ pc[w] = "idle"
    /\ loc' = [loc EXCEPT ![w] = [LocIdle EXCEPT !.job = id]]
    /\ Goto(w, "gp_redis")
    /\ UNCHANGED <<cacheVars, jobVars>>

\* line 225: translation.status.value if translation else "unknown"
SnapshotStatus(id) ==
    IF id \in JobIds THEN translations[id].status ELSE "unknown"

\* lines 212-230: the snapshot of Redis, completed with the row's status; the
\* except of lines 229-230 sends every error to the fallback
get_translation_progress_redis(w) ==
    /\ pc[w] = "gp_redis"
    /\ LET id == loc[w].job
       IN  \E up \in BOOLEAN :
              LET cached_progress == IF up THEN progressStore[id] ELSE None
              IN  IF cached_progress # None
                  THEN /\ loc' = [loc EXCEPT ![w].ret =
                                    [translation_id |-> id,
                                     status |-> SnapshotStatus(id),
                                     progress |-> cached_progress.progress,
                                     cached_chars |-> cached_progress.cached_chars]]
                       /\ Goto(w, "gp_ret")
                  ELSE /\ Goto(w, "gp_db")
                       /\ UNCHANGED loc
    /\ UNCHANGED <<cacheVars, jobVars>>

\* lines 232-247: the fallback reads the row; no row raises ValueError
get_translation_progress_db(w) ==
    /\ pc[w] = "gp_db"
    /\ LET id == loc[w].job
       IN  loc' = [loc EXCEPT ![w].ret =
                     IF id \in JobIds
                     THEN [translation_id |-> id,
                           status |-> translations[id].status,
                           progress |-> translations[id].progress,
                           cached_chars |-> translations[id].credits_saved]
                     ELSE [raised |-> "ValueError"]]
    /\ Goto(w, "gp_ret")
    /\ UNCHANGED <<cacheVars, jobVars>>

\* get_translation_progress has returned or raised
get_translation_progress_return(w) ==
    /\ pc[w] = "gp_ret"
    /\ loc' = [loc EXCEPT ![w] = LocIdle]
    /\ Goto(w, "idle")
    /\ UNCHANGED <<cacheVars, jobVars>>

NextProgress ==
    \E w \in {1} :
       \/ \E id \in ProgressIds :
             get_translation_progress_call(w, id) /\ UNCHANGED limVars
       \/ get_translation_progress_redis(w) /\ UNCHANGED limVars
       \/ get_translation_progress_db(w) /\ UNCHANGED limVars
       \/ get_translation_progress_return(w) /\ UNCHANGED limVars
       \/ process_translation_call(w, MissingId) /\ UNCHANGED limVars
       \/ process_translation_start(w) /\ UNCHANGED limVars
       \/ process_translation_return(w) /\ UNCHANGED limVars

SpecProgress == InitProgress /\ [][NextProgress]_vars

\* the call of worker w is for an id without a row, and has ended
EndedOnMissing(w) == loc[w].job = MissingId /\ pc[w] \in {"gp_ret", "pt_raised"}

\* C29: for an id that has no job row, process_translation and
\* get_translation_progress both raise the not-found error and change no
\* state, whether or not the progress store holds a snapshot for the id.
C29_MissingJobNotFound ==
    /\ [](\A w \in Workers :
            EndedOnMissing(w) => loc[w].ret = [raised |-> "ValueError"])
    /\ [][\A w \in Workers :
            loc[w].job = MissingId => UNCHANGED <<cacheVars, jobVars>>]_vars

\* the chunk_order values of the persisted rows of a job
OrdersOf(id) == {chunkRows[k].chunk_order : k \in RowsOf(id)}

\* C30: for any job, after any sequence of invocations, the persisted chunk
\* rows were written in splitter order and their chunk_order values are
\* exactly 0..n-1, each once; sorted by chunk_order they give one translated
\* unit per chunk of a completed job.
C30_ChunkOrderContiguous ==
    \A id \in JobIds :
       /\ \A j, k \in RowsOf(id) :
             /\ j # k => chunkRows[j].chunk_order # chunkRows[k].chunk_order
             /\ j < k => chunkRows[j].chunk_order < chunkRows[k].chunk_order
       /\ OrdersOf(id) = 0..(Cardinality(RowsOf(id)) - 1)
       /\ Job(id).status = "completed" =>
             /\ Cardinality(RowsOf(id)) = Len(ChunksOf(id))
             /\ \A n \in 0..(Len(ChunksOf(id)) - 1) : ChunkPersisted(id, n)

(***************************************************************************)
(* The debit and the failed status                                         *)
(***************************************************************************)
\* C31: a job whose persisted status is failed has debited nothing, whatever
\* exception comes after the chunk loop: the debit is written only by the
\* commit that writes completed
C31_FailedDebitedNothing ==
    \A id \in JobIds : translations[id].status = "failed" => debited[id] = 0

(***************************************************************************)
(* The two tiers of the cache                                              *)
(***************************************************************************)
\* the durable entries a volatile record stands for: same key, same
\* translated text, id equal to the record's cache_id
BackingRows(k) ==
    {r \in durable : /\ r.text_hash = k
                     /\ r.translated_text = redis[k].translated_text
                     /\ r.id = redis[k].cache_id}

\* C32: in every reachable state each volatile record of a cache key stands
\* for an existing durable entry of that key, with the same translated text
\* and the id the record carries, also when a volatile delete or write fails
C32_VolatileBackedByDurable ==
    \A k \in CacheKeys : redis[k] # None => BackingRows(k) # {}

\* C33: with clear_old_cache and get_from_cache running concurrently on one
\* key, the delete never removes an entry whose hit_count a committed lookup
\* has raised above zero, and an entry returned as a hit still exists when
\* the caller takes the result
C33_ClearSparesCountedEntries ==
    /\ [][\A w \in Workers :
            (pc[w] = "cc_delete" /\ pc'[w] = "cc_ret")
               => \A r \in Removed : r.hit_count = 0]_vars
    /\ [](\A w \in Workers :
            (pc[w] = "gc_ret" /\ loc[w].ret # None /\ ~ loc[w].ret.from_redis)
               => RowById(loc[w].ret.cache_id) # {})

(***************************************************************************)
(* The limiter inside the retry loop                                       *)
(***************************************************************************)
\* the returns of _check_rate_limit the invocation has not used yet
PendingAdmission == IF rl[TT].pc = "ret" THEN 1 ELSE 0

\* C34: every provider call of translate_text, each retry included, follows
\* a return of _check_rate_limit of its own: the calls made are as many as
\* the admissions used, a call is made only when the limiter has just
\* returned, and with a working counter store that admission is registered
\* in the window
C34_AdmissionBeforeEachCall ==
    /\ [](TotalAdmitted = tt.calls + PendingAdmission)
    /\ [][tt'.calls # tt.calls =>
            /\ tt'.calls = tt.calls + 1
            /\ rl[TT].pc = "ret"
            /\ limiterFault = 0 => zset[rl[TT].t] >= 1]_vars

\* the third provider call has been made, after two transient failures, with
\* three admissions and no limiter fault
C34_Witness ==
    /\ tt.calls = retry_attempts
    /\ tt.attempt = retry_attempts - 1
    /\ TotalAdmitted = retry_attempts
    /\ limiterFault = 0

(***************************************************************************)
(* The limiter when its counter store fails.  SpecRetryFair is SpecRetry   *)
(* with the invocation's steps and its sleeps going on.                    *)
(***************************************************************************)
SpecRetryFair == InitRetry /\ [][NextRetry]_vars /\ WF_vars(NextRetry)

\* an operation of the counter store raises in this step
LimiterFaultStep == limiterFault' # limiterFault

\* the zadd of the running call (line 40) has been done
RegisteredByCall(c) == rl[c].pc = "expire"

\* where a call of _check_rate_limit can be; none is a raise
LimiterPlaces == {"idle", "call", "count", "register", "expire", "sleep", "ret"}

\* C35 as stated: whenever an operation of the counter store fails, the call
\* returns True and has not been registered in the window
C35_FailOpenAsStated ==
    [][LimiterFaultStep =>
          /\ rl'[TT].pc = "ret"
          /\ ~ RegisteredByCall(TT)]_vars

\* C35: _check_rate_limit never raises and a call always eventually returns;
\* when an operation of the counter store fails the call returns True at
\* once and the window stays as the failure found it: without this call
\* when zremrangebyscore, zcard or zadd failed, with it when expire failed
C35_FailOpen ==
    /\ [](rl[TT].pc \in LimiterPlaces)
    /\ [][LimiterFaultStep =>
            /\ rl'[TT].pc = "ret"
            /\ zset' = zset
            /\ TotalAdmitted' = TotalAdmitted + 1]_vars
    /\ (rl[TT].pc = "call") ~> (rl[TT].pc = "ret")

\* the call found the window full, slept, registered itself, and expire
\* raised: it has returned and its member is in the window
C35_Witness ==
    /\ limiterFault = 1
    /\ rl[TT].pc = "ret"
    /\ tt.calls = 0
    /\ rl[TT].t > 0
    /\ zset[rl[TT].t] = 1

(***************************************************************************)
(* Chunks of one job with the same normalized text                         *)
(***************************************************************************)
\* two chunk texts have the same normalized text: the same words, up to
\* letter case
SameNormalizedText(a, b) == DifferInCaseOrSpacing(a, b)

\* the rows of job id before position m whose chunk has the normalized text
\* of x
EarlierSameKey(id, m, x) ==
    {n \in RowsOf(id) : n < m /\ SameNormalizedText(chunkRows[n].original_text, x)}

\* the characters of the rows of job id among the first n, taken from the
\* cache (hit) or not
RECURSIVE CharsOf(_, _, _)
CharsOf(id, hit, n) ==
    IF n = 0 THEN 0
    ELSE CharsOf(id, hit, n - 1) +
         (IF chunkRows[n].translation_id = id /\ chunkRows[n].from_cache = hit
          THEN chunkRows[n].character_count ELSE 0)

\* C36: while the database works, a chunk whose normalized text an earlier
\* chunk of the same job had is not sent to the provider: its row has
\* from_cache = true; and a job run once and completed is billed the chunks
\* that were not hits and has the hits counted as saved
C36_RepeatedChunkFromCache ==
    dbFaults = 0 =>
       /\ \A m \in 1..Len(chunkRows) :
             EarlierSameKey(chunkRows[m].translation_id, m,
                            chunkRows[m].original_text) # {}
                => chunkRows[m].from_cache
       /\ \A w \in Workers :
             pc[w] = "pt_translate" =>
                EarlierSameKey(loc[w].job, Len(chunkRows) + 1, loc[w].text) = {}
       /\ \A id \in JobIds :
             (Job(id).status = "completed" /\ Job(id).runs = 1) =>
                /\ Job(id).credits_used = CharsOf(id, FALSE, Len(chunkRows))
                /\ Job(id).credits_saved = CharsOf(id, TRUE, Len(chunkRows))

\* a job of the chunks 'a' and 'A ' ran once on an empty cache and is
\* completed: the first chunk was translated and billed, the second was a hit
C36_Witness ==
    /\ dbFaults = 0
    /\ \E id \in JobIds :
          /\ Job(id).text_content = <<TextLower, TextUpper>>
          /\ Job(id).status = "completed"
          /\ Job(id).runs = 1
          /\ Job(id).credits_used = TextLen(TextLower)
          /\ Job(id).credits_saved = TextLen(TextUpper)
          /\ \E n, m \in RowsOf(id) :
                /\ n < m
                /\ ~ chunkRows[n].from_cache
                /\ chunkRows[m].from_cache

(***************************************************************************)
(* SpecJobGlossary: one worker runs jobs of the same one-chunk document,   *)
(* each with a glossary of its own or with none.                           *)
(***************************************************************************)
\* translation.glossary: no glossary, or 'a' must be rendered as 'x'
JobGlossaries == {<<>>, <<[term |-> <<"a">>, value |-> <<"x">>]>>}

GlossaryJobKinds ==
    {[NewJob(<<TextLower>>, FALSE) EXCEPT !.glossary = g] : g \in JobGlossaries}

InitJobGlossary ==
    /\ LimiterOff
    /\ InitStores
    /\ pc = [w \in Workers |-> "idle"]
    /\ loc = [w \in Workers |-> LocIdle]
    /\ translations \in [JobIds -> GlossaryJobKinds]
    /\ chunkRows = <<>>
    /\ credits = InitialCredits
    /\ progressStore = [id \in JobIds |-> None]
    /\ debited = [id \in JobIds |-> 0]

SpecJobGlossary == InitJobGlossary /\ [][NextJobSeq]_vars

\* the translation renders every glossary term of the original as required
Honours(original, translated, glossary) ==
    \A i \in 1..Len(glossary) :
       Contains(original.s, glossary[i].term)
          => Contains(translated.s, glossary[i].value)

\* C37: a chunk resolved from the cache carries a translation that honours
\* the glossary of the job it belongs to
C37_HitHonoursGlossary ==
    \A n \in 1..Len(chunkRows) :
       chunkRows[n].from_cache =>
          Honours(chunkRows[n].original_text, chunkRows[n].translated_text,
                  Job(chunkRows[n].translation_id).glossary)

(***************************************************************************)
(* SpecBatch: one client saves, looks up and batch-saves, one call after   *)
(* the other.                                                              *)
(***************************************************************************)
MaxBatch == 2

\* an item of the list batch_save_to_cache is given
BatchItem(x) ==
    [original_text |-> x, translated_text |-> ProviderText(x),
     source_lang |-> EN, target_lang |-> PT]

Batches == SeqsUpTo({BatchItem(x) : x \in Texts}, MaxBatch)

\* the session autoflushes or not, as its factory was configured; seen is
\* history: the two tiers as the call found them
client_batch_save_to_cache(w, translations_list) ==
    /\ pc[w] = "idle"
    /\ \E autoflush \in BOOLEAN :
         loc' = [loc EXCEPT ![w] =
                   [LocIdle EXCEPT !.batch = translations_list,
                                   !.autoflush = autoflush,
                                   !.seen = [durable |-> durable, redis |-> redis]]]
    /\ Goto(w, "bs_loop")
    /\ UNCHANGED cacheVars

\* the texts of the single saves and lookups
SingleTexts == {TextLower, TextOther}

NextBatch ==
    \/ \E x \in SingleTexts : client_get_from_cache(1, x) /\ UNCHANGED limiterVars
    \/ \E x \in SingleTexts :
         client_save_to_cache(1, x, ProviderText(x)) /\ UNCHANGED limiterVars
    \/ \E b \in Batches : client_batch_save_to_cache(1, b) /\ UNCHANGED limiterVars
    \/ client_return(1) /\ UNCHANGED limiterVars
    \/ get_from_cache_redis(1) /\ UNCHANGED limiterVars
    \/ get_from_cache_query(1) /\ UNCHANGED limiterVars
    \/ get_from_cache_commit(1) /\ UNCHANGED limiterVars
    \/ get_from_cache_setex(1) /\ UNCHANGED limiterVars
    \/ save_to_cache_query(1) /\ UNCHANGED limiterVars
    \/ save_to_cache_insert(1) /\ UNCHANGED limiterVars
    \/ save_to_cache_setex(1) /\ UNCHANGED limiterVars
    \/ batch_save_to_cache_item(1) /\ UNCHANGED limiterVars
    \/ batch_save_to_cache_commit(1) /\ UNCHANGED limiterVars
    \/ batch_save_to_cache_setex(1) /\ UNCHANGED limiterVars
    \/ \E k \in CacheKeys :
         \* between two calls: a call takes less than the TTL
         /\ pc[1] = "idle"
         /\ redis_ttl_expire(k)
         /\ UNCHANGED limiterVars

SpecBatch == InitCache /\ [][NextBatch]_vars

\* the key of an item
ItemKey(item) ==
    generate_cache_key(item.original_text, item.source_lang, item.target_lang)

\* the first item of the list with the key k
FirstOfKey(b, k) ==
    b[CHOOSE i \in 1..Len(b) :
         ItemKey(b[i]) = k /\ \A j \in 1..(i - 1) : ItemKey(b[j]) # k]

\* C38: when batch_save_to_cache has returned, the tiers are as save_to_cache
\* called on each item in turn leaves them: one durable entry per key, also
\* for a key that is twice in the list; the entries that existed are
\* unchanged and their volatile records are as they were; a key that was new
\* has the entry of its first item
C38_BatchAsSequentialSaves ==
    \A w \in Workers :
       pc[w] = "bs_ret" =>
          LET b == loc[w].batch
              seen == loc[w].seen
              old(k) == {r \in seen.durable : r.text_hash = k}
          IN  /\ \A k \in CacheKeys : Cardinality(Existing(k)) <= 1
              /\ seen.durable \subseteq durable
              /\ \A i \in 1..Len(b) :
                    LET k == ItemKey(b[i])
                    IN  IF old(k) # {}
                        THEN redis[k] = seen.redis[k]
                        ELSE \A r \in Existing(k) :
                                r.translated_text = FirstOfKey(b, k).translated_text

====
